---- MODULE Spec2Model ----
(***************************************************************************)
(* Model of the Geo SDK demo scripts: the publish script                   *)
(* (02_publish_demo.ts: main, extractValues), the helpers in               *)
(* src/functions (gql, publishOps, printOps) and the cleanup script        *)
(* (03_delete_demo.ts).  The SDK (@geoprotocol/geo-sdk: Graph.*,           *)
(* Position.*, personalSpace, daoSpace, the wallet client) is not part of  *)
(* the repository; the operators standing for it follow the written        *)
(* specification of the SDK's contract.                                    *)
(***************************************************************************)
EXTENDS Integers, Sequences, FiniteSets, TLC

\* key generation on its own: the generated keys, sorted, and the last call
VARIABLES keys, lastCall

\* a chain of generateBetween calls, each anchored on the previous result
VARIABLES cmode, cjit, clo, chi, cout, cn, ccall, chist

\* the publish script: its input files, position, loop indices and locals, the
\* persisted batch record, the publishOps calls made and the hash returned
VARIABLES topics, people, projects, pc, idx, jdx, allOps, nextId,
          topicIdsByName, personIdsByName, projectIdsByName, lastPosByEntity,
          queryBlockId, collectionBlockId, batchFile, publishCalls, txHash

\* one publishOps call: the environment and what the wallet and the API hold, the
\* call's position and locals, the external calls made, what it returned or threw,
\* and for every gql call the response it got and whether it returned data
VARIABLES penv, walletAddress, apiSpaces, apiSpace, ppc, author, personalSpaceData,
          spaceData, pto, pcalldata, calls, failedCall, presult, perror, gqlLog

\* the cleanup script: the persisted batch record it finds, its position and
\* locals, the delete-operations file and the publishOps calls made
VARIABLES recordFile, cpc, cops, del_ops, deleteFile, cleanupCalls

\* a batch built with the SDK's builders and replayed operation by operation: the
\* batch, the last builder call, the next id, the replay position, the values and
\* relations replayed so far, the state before the unset and the unset made
VARIABLES rbatch, rcall, rnext, rpos, rvalues, rrels, rbefore, runset

\* the number of the publish script's current run
VARIABLES run

\* an identifier as an operation holds it and as printOps has rendered it
VARIABLES uin, uout

posVars == << keys, lastCall >>

pubVars == << penv, walletAddress, apiSpaces, apiSpace, ppc, author, personalSpaceData,
              spaceData, pto, pcalldata, calls, failedCall, presult, perror, gqlLog >>

cleanVars == << recordFile, cpc, cops, del_ops, deleteFile, cleanupCalls >>

replayVars == << rbatch, rcall, rnext, rpos, rvalues, rrels, rbefore, runset >>

runVars == << run >>

printVars == << uin, uout >>

chainVars == << cmode, cjit, clo, chi, cout, cn, ccall, chist >>

mainVars == << topics, people, projects, pc, idx, jdx, allOps, nextId,
               topicIdsByName, personIdsByName, projectIdsByName, lastPosByEntity,
               queryBlockId, collectionBlockId, batchFile, publishCalls, txHash >>

vars == << posVars, chainVars, mainVars, pubVars, cleanVars, replayVars, runVars, printVars >>

notPos == << chainVars, mainVars, pubVars, cleanVars, replayVars, runVars, printVars >>

notChain == << posVars, mainVars, pubVars, cleanVars, replayVars, runVars, printVars >>

notRuns == << posVars, chainVars, pubVars, cleanVars, replayVars, printVars >>

notMain == << notRuns, runVars >>

notPub == << posVars, chainVars, mainVars, cleanVars, replayVars, runVars, printVars >>

notClean == << posVars, chainVars, mainVars, pubVars, replayVars, runVars, printVars >>

notReplay == << posVars, chainVars, mainVars, pubVars, cleanVars, runVars, printVars >>

notPrint == << posVars, chainVars, mainVars, pubVars, cleanVars, replayVars, runVars >>

(***************************************************************************)
(* Ordering keys (fractional indexing).                                    *)
(* A key is a non-empty string over an ordered alphabet of Base digits,    *)
(* here the sequence of its digit indices 0..Base-1; keys compare as       *)
(* JavaScript strings do (lexicographically, a proper prefix first).       *)
(* NoKey, the empty sequence, stands for null: "no bound".                 *)
(***************************************************************************)
Base == 4

MaxKeys == 5

ChainLen == 52

NoKey == << >>

RECURSIVE LexLess(_, _)
LexLess(a, b) ==
  IF b = << >> THEN FALSE
  ELSE IF a = << >> THEN TRUE
  ELSE IF a[1] # b[1] THEN a[1] < b[1]
  ELSE LexLess(Tail(a), Tail(b))

\* a < k < b where an absent bound (NoKey) is -infinity below, +infinity above
StrictlyBetween(a, k, b) ==
  /\ k # NoKey
  /\ (a = NoKey \/ LexLess(a, k))
  /\ (b = NoKey \/ LexLess(k, b))

DigitAt(a, n) == IF n <= Len(a) THEN a[n] ELSE 0

Drop(a, n) == IF n >= Len(a) THEN << >> ELSE SubSeq(a, n + 1, Len(a))

\* length of the longest common prefix of a (padded with the zero digit) and b
RECURSIVE CommonPrefix(_, _, _)
CommonPrefix(a, b, n) ==
  IF n < Len(b) /\ DigitAt(a, n + 1) = b[n + 1]
  THEN CommonPrefix(a, b, n + 1)
  ELSE n

\* mutant: takes the lower digit itself, so the key does not move off its lower bound
MidDigitLow(digitA, digitB) == digitA

\* the digit halfway between two digits more than one apart, halves rounded up
MidDigit(digitA, digitB) == (digitA + digitB + 1) \div 2

\* mutant: takes the upper bound's first digit also when that digit is all of it
TakeUpperDigitAlways(b) == b # NoKey

\* first digits consecutive: the upper bound's first digit alone lies strictly
\* between only when the upper bound has more digits after it
TakeUpperDigit(b) == b # NoKey /\ Len(b) > 1

\* the base-N digit string halfway between a and b (a = << >>: zero, b = NoKey: one)
RECURSIVE Midpoint(_, _)
Midpoint(a, b) ==
  LET n == IF b = NoKey THEN 0 ELSE CommonPrefix(a, b, 0) IN
  IF n > 0 THEN SubSeq(b, 1, n) \o Midpoint(Drop(a, n), Drop(b, n))
  ELSE
    LET digitA == DigitAt(a, 1)
        digitB == IF b = NoKey THEN Base ELSE b[1]
    IN  IF digitB - digitA > 1 THEN << MidDigit(digitA, digitB) >>
        ELSE IF TakeUpperDigit(b) THEN << b[1] >>
        ELSE << digitA >> \o Midpoint(Drop(a, 1), NoKey)

\* Position.generateBetween(a, b): the keys a call may return.  The generator may
\* break ties at random inside the open interval: either the midpoint or a key
\* between the midpoint and the upper bound.
GenerateBetween(a, b) ==
  LET m == Midpoint(a, b) IN { m, Midpoint(m, b) }

(***************************************************************************)
(* Key generation on its own: the sorted list of the keys generated so     *)
(* far, and the last call made.                                            *)
(***************************************************************************)
NoCall == [lo |-> NoKey, hi |-> NoKey, out |-> NoKey]

PosIdle == keys = << >> /\ lastCall = NoCall

InsertSorted(ks, k) ==
  LET below == { i \in 1 .. Len(ks) : LexLess(ks[i], k) }
      n == Cardinality(below)
  IN  SubSeq(ks, 1, n) \o << k >> \o SubSeq(ks, n + 1, Len(ks))

BoundAt(ks, i) == IF i < 1 \/ i > Len(ks) THEN NoKey ELSE ks[i]

\* one call generateBetween(a, b): a and b are generated keys or null, a < b
Generate(i, j) ==
  /\ Len(keys) < MaxKeys
  /\ i < j
  /\ \E k \in GenerateBetween(BoundAt(keys, i), BoundAt(keys, j)) :
       /\ keys' = IF \E n \in 1 .. Len(keys) : keys[n] = k
                  THEN keys ELSE InsertSorted(keys, k)
       /\ lastCall' = [lo |-> BoundAt(keys, i), hi |-> BoundAt(keys, j), out |-> k]
  /\ UNCHANGED notPos

PosNext == \E i \in 0 .. MaxKeys, j \in 1 .. (MaxKeys + 1) :
             /\ j <= Len(keys) + 1
             /\ Generate(i, j)

(***************************************************************************)
(* Chains of calls: each call is anchored on the result of the previous.   *)
(*   "after": k1 = gen(null, null), k(i+1) = gen(k(i), null)               *)
(*   "lo", "hi", "alt": two adjacent generated keys k1 < k2 first, then    *)
(*   insertions between the same pair, each between one original          *)
(*   neighbour and the key inserted last.                                  *)
(***************************************************************************)
ChainModes == { "after", "lo", "hi", "alt" }

NoBounds == [lo |-> NoKey, hi |-> NoKey]

ChainIdle ==
  /\ cmode = "idle" /\ cjit = 0 /\ clo = NoKey /\ chi = NoKey
  /\ cout = NoKey /\ cn = 0 /\ ccall = NoBounds /\ chist = << >>

ChainInit ==
  /\ cmode \in ChainModes
  /\ cjit \in 1 .. 3
  /\ clo = NoKey /\ chi = NoKey /\ cout = NoKey /\ cn = 0
  /\ ccall = NoBounds /\ chist = << >>

\* which of the generator's candidates the chain takes at its n-th call
JitterPick(a, b, n) ==
  LET m == Midpoint(a, b) IN
  IF cjit = 1 \/ (cjit = 3 /\ n % 2 = 0) THEN m ELSE Midpoint(m, b)

\* the next call of the chain: clo, chi are the bounds it passes
ChainCall ==
  /\ cmode \in ChainModes
  /\ cn < ChainLen
  /\ LET k == JitterPick(clo, chi, cn) IN
       /\ k \in GenerateBetween(clo, chi)
       /\ cout' = k
       /\ ccall' = [lo |-> clo, hi |-> chi]
       /\ chist' = Append(chist, k)
       /\ cn' = cn + 1
       /\ IF cmode = "after" \/ cn = 0 THEN clo' = k /\ chi' = NoKey
          ELSE IF cn = 1 THEN clo' = clo /\ chi' = k
          ELSE IF cmode = "lo" \/ (cmode = "alt" /\ cn % 2 = 0)
               THEN clo' = clo /\ chi' = k
               ELSE clo' = k /\ chi' = chi
  /\ UNCHANGED << cmode, cjit, notChain >>

(***************************************************************************)
(* Identifiers.  A well-known id of src/constants.ts is named by its       *)
(* symbol; an id the SDK generates is numbered in the order of generation. *)
(* NoId stands for JavaScript's undefined.                                 *)
(***************************************************************************)
Known(s) == [k |-> s, n |-> 0]

GenId(n) == [k |-> "id", n |-> n]

NoId == [k |-> "undefined", n |-> 0]

\* a property every JavaScript object inherits (a function, not an id)
Inherited == [k |-> "inherited", n |-> 0]

\* the names under which a plain object answers with an inherited property
InheritedNames == { "constructor", "toString", "valueOf", "hasOwnProperty" }

\* the value can be used as an identifier by the builders
IsId(x) == x \notin { NoId, Inherited }

TYPES_person == Known("TYPES.person")

TYPES_project == Known("TYPES.project")

TYPES_topic == Known("TYPES.topic")

TYPES_text_block == Known("TYPES.text_block")

TYPES_data_block == Known("TYPES.data_block")

TYPES_image == Known("TYPES.image")

PROPERTIES_name == Known("PROPERTIES.name")

PROPERTIES_description == Known("PROPERTIES.description")

PROPERTIES_types == Known("PROPERTIES.types")

PROPERTIES_web_url == Known("PROPERTIES.web_url")

PROPERTIES_birth_date == Known("PROPERTIES.birth_date")

PROPERTIES_date_founded == Known("PROPERTIES.date_founded")

PROPERTIES_topics == Known("PROPERTIES.topics")

PROPERTIES_blocks == Known("PROPERTIES.blocks")

PROPERTIES_markdown_content == Known("PROPERTIES.markdown_content")

PROPERTIES_data_source_type == Known("PROPERTIES.data_source_type")

PROPERTIES_filter == Known("PROPERTIES.filter")

PROPERTIES_collection_item == Known("PROPERTIES.collection_item")

PROPERTIES_view == Known("PROPERTIES.view")

QUERY_DATA_SOURCE == Known("QUERY_DATA_SOURCE")

COLLECTION_DATA_SOURCE == Known("COLLECTION_DATA_SOURCE")

VIEWS_list == Known("VIEWS.list")

VIEWS_gallery == Known("VIEWS.gallery")

AVATAR_PROPERTY == Known("ContentIds.AVATAR_PROPERTY")

IMAGE_URL_PROPERTY == Known("image url")

\* a JSON field that is null or absent
Null == "null"

(***************************************************************************)
(* Operations of a batch.  Every operation record has the same fields; a   *)
(* field an operation kind does not use holds NoId, << >> or NoKey.        *)
(***************************************************************************)
Value(property, kind, value) == [property |-> property, kind |-> kind, value |-> value]

EntityOp(id, values) ==
  [type |-> "createEntity", id |-> id, values |-> values,
   from |-> NoId, relType |-> NoId, to |-> NoId, position |-> NoKey]

RelationOp(id, from, relType, to, position) ==
  [type |-> "createRelation", id |-> id, values |-> << >>,
   from |-> from, relType |-> relType, to |-> to, position |-> position]

Rel(relType, to) == [relType |-> relType, to |-> to]

\* mutant: a property named twice keeps its last value only
OnePerProperty(values) ==
  LET last == { i \in 1 .. Len(values) :
                  \A k \in i + 1 .. Len(values) : values[k].property # values[i].property }
      nth(m) == CHOOSE i \in last : Cardinality({ k \in last : k < i }) = m - 1
  IN  [m \in 1 .. Cardinality(last) |-> values[nth(m)]]

CreateEntityMerging(n, name, description, types, values, relations) ==
  LET id == GenId(n)
      named == IF name = Null THEN << >> ELSE << Value(PROPERTIES_name, "text", name) >>
      described == IF description = Null THEN << >>
                   ELSE << Value(PROPERTIES_description, "text", description) >>
  IN  [id |-> id,
       ok |-> \A i \in 1 .. Len(relations) : IsId(relations[i].to),
       next |-> n + 1 + Len(types) + Len(relations),
       ops |-> << EntityOp(id, named \o described \o OnePerProperty(values)) >>
               \o [i \in 1 .. Len(types) |->
                     RelationOp(GenId(n + i), id, PROPERTIES_types, types[i], NoKey)]
               \o [i \in 1 .. Len(relations) |->
                     RelationOp(GenId(n + Len(types) + i), id,
                                relations[i].relType, relations[i].to, NoKey)]]

\* Graph.createEntity: a new entity id, then the entity's values (name and
\* description first, the given values in input order), one Types relation per
\* type, and the given relations in order.  n numbers the first id generated.
CreateEntity(n, name, description, types, values, relations) ==
  LET id == GenId(n)
      named == IF name = Null THEN << >> ELSE << Value(PROPERTIES_name, "text", name) >>
      described == IF description = Null THEN << >>
                   ELSE << Value(PROPERTIES_description, "text", description) >>
  IN  [id |-> id,
       ok |-> \A i \in 1 .. Len(relations) : IsId(relations[i].to),
       next |-> n + 1 + Len(types) + Len(relations),
       ops |-> << EntityOp(id, named \o described \o values) >>
               \o [i \in 1 .. Len(types) |->
                     RelationOp(GenId(n + i), id, PROPERTIES_types, types[i], NoKey)]
               \o [i \in 1 .. Len(relations) |->
                     RelationOp(GenId(n + Len(types) + i), id,
                                relations[i].relType, relations[i].to, NoKey)]]

\* mutant: the sub-relations start at the source of the primary relation
CreateRelationOnSource(n, fromEntity, toEntity, relType, position, entityRelations) ==
  LET id == GenId(n) IN
  [id |-> id,
   ok |-> IsId(fromEntity) /\ IsId(toEntity),
   next |-> n + 1 + Len(entityRelations),
   ops |-> << RelationOp(id, fromEntity, relType, toEntity, position) >>
           \o [i \in 1 .. Len(entityRelations) |->
                 RelationOp(GenId(n + i), fromEntity, entityRelations[i].relType,
                            entityRelations[i].to, NoKey)]]

\* mutant: the builder accepts a missing identifier
CreateRelationUnchecked(n, fromEntity, toEntity, relType, position, entityRelations) ==
  LET id == GenId(n) IN
  [id |-> id,
   ok |-> TRUE,
   next |-> n + 1 + Len(entityRelations),
   ops |-> << RelationOp(id, fromEntity, relType, toEntity, position) >>
           \o [i \in 1 .. Len(entityRelations) |->
                 RelationOp(GenId(n + i), id, entityRelations[i].relType,
                            entityRelations[i].to, NoKey)]]

\* Graph.createRelation: a new relation id, the relation itself, then one relation
\* per entityRelations entry whose source is the new relation.
CreateRelation(n, fromEntity, toEntity, relType, position, entityRelations) ==
  LET id == GenId(n) IN
  [id |-> id,
   ok |-> IsId(fromEntity) /\ IsId(toEntity),
   next |-> n + 1 + Len(entityRelations),
   ops |-> << RelationOp(id, fromEntity, relType, toEntity, position) >>
           \o [i \in 1 .. Len(entityRelations) |->
                 RelationOp(GenId(n + i), id, entityRelations[i].relType,
                            entityRelations[i].to, NoKey)]]

\* Graph.createImage, once the upload has succeeded: an Image entity with its URL
CreateImage(n, name) ==
  CreateEntity(n, name, Null, << TYPES_image >>,
               << Value(IMAGE_URL_PROPERTY, "text", "ipfs://cid") >>, << >>)

(***************************************************************************)
(* The publish script (02_publish_demo.ts).                                *)
(***************************************************************************)
VALUE_PROPERTIES ==
  << [field |-> "web_url", id |-> PROPERTIES_web_url, type |-> "text"],
     [field |-> "birth_date", id |-> PROPERTIES_birth_date, type |-> "date"],
     [field |-> "date_founded", id |-> PROPERTIES_date_founded, type |-> "date"] >>

RECURSIVE ExtractFrom(_, _)
ExtractFrom(data, i) ==
  IF i > Len(VALUE_PROPERTIES) THEN << >>
  ELSE LET meta == VALUE_PROPERTIES[i] IN
       (IF data[meta.field] # Null
        THEN << Value(meta.id, meta.type, data[meta.field]) >> ELSE << >>)
       \o ExtractFrom(data, i + 1)

\* mutant: the registry is walked from its last entry to its first
extractValuesBackwards(data) ==
  LET v == ExtractFrom(data, 1) IN [i \in 1 .. Len(v) |-> v[Len(v) + 1 - i]]

\* extractValues: one value per registry entry whose field is not null
extractValues(data) == ExtractFrom(data, 1)

\* lookup in a name -> id object ({} with names assigned): the id assigned, else
\* what the object inherits under the name, else undefined (NoId)
Lookup(map, name) ==
  IF name \in DOMAIN map THEN map[name]
  ELSE IF name \in InheritedNames THEN Inherited
  ELSE NoId

\* mutant: the topic relations are built from the last listed topic to the first
TopicRelationsReversed(map, names) ==
  LET known == SelectSeq(names, LAMBDA t : Lookup(map, t) # NoId)
  IN  [i \in 1 .. Len(known) |-> Rel(PROPERTIES_topics, Lookup(map, known[Len(known) + 1 - i]))]

\* (names || []).filter(t => topicIdsByName[t]).map(t => ({toEntity: topicIdsByName[t]}))
RECURSIVE TopicRelations(_, _)
TopicRelations(map, names) ==
  IF names = << >> THEN << >>
  ELSE (IF Lookup(map, Head(names)) # NoId
        THEN << Rel(PROPERTIES_topics, Lookup(map, Head(names))) >> ELSE << >>)
       \o TopicRelations(map, Tail(names))

\* mutant: the last position of a parent is not looked up
LastPosForgotten(map, parentId) == NoKey

\* lastPosByEntity[parentId] ?? null
LastPos(map, parentId) == IF parentId \in DOMAIN map THEN map[parentId] ELSE NoKey

\* mutant: a position already kept for the parent is not replaced
RememberFirst(map, parentId, pos) == map @@ (parentId :> pos)

\* lastPosByEntity[parentId] = pos
Remember(map, parentId, pos) == (parentId :> pos) @@ map

MaxTopics == 2

MaxPeople == 2

MaxProjects == 2

MaxBlocks == 2

SeqsUpTo(S, n) == UNION { [1 .. m -> S] : m \in 0 .. n }

Record(name, web_url, birth_date, date_founded, topicList, avatar_url, blocks) ==
  [name |-> name, description |-> "text", web_url |-> web_url,
   birth_date |-> birth_date, date_founded |-> date_founded,
   topics |-> topicList, avatar_url |-> avatar_url, blocks |-> blocks]

TopicNames == { "A", "B" }

ProjectNames == { "Ethereum", "Other" }

PersonRecords ==
  { Record("Vitalik Buterin", "https://x", "1994-01-31", "2015-07-30", << "A", "B" >>, Null, << >>),
    Record("Vitalik Buterin", Null, Null, Null, << >>, Null, << >>),
    Record("Satoshi Nakamoto", Null, "1975-04-05", Null, << "B", "Z" >>, Null, << >>),
    Record("Satoshi Nakamoto", "https://y", Null, Null, << "Z" >>, Null, << >>) }

KeyPeople ==
  << Record("Vitalik Buterin", "https://x", "1994-01-31", Null, << "A" >>, Null, << >>),
     Record("Satoshi Nakamoto", Null, Null, Null, << >>, Null, << >>) >>

\* the text lines of a project's blocks array
Lines(n) == [i \in 1 .. n |-> "line"]

BlockProjects ==
  { Record("Ethereum", Null, Null, Null, << >>, Null, Lines(b)) : b \in 0 .. MaxBlocks }
  \cup { Record("Other", Null, Null, Null, << >>, Null, Lines(b)) : b \in 0 .. 1 }

AvatarProjects ==
  { Record(name, Null, Null, "2015-07-30",
           IF name = "Ethereum" THEN << "B", "Z" >> ELSE << >>, av,
           Lines(IF name = "Ethereum" THEN 1 ELSE 0)) :
      name \in ProjectNames, av \in { Null, "https://img" } }

\* a person listing the first and the third of three topics
ScenarioPerson == Record("Vitalik Buterin", Null, Null, Null, << "A", "C" >>, Null, << >>)

\* a person whose only listed topic is no topic record but a name objects inherit
InheritingPerson ==
  Record("Vitalik Buterin", Null, Null, Null, << "constructor" >>, Null, << >>)

PlainEthereum == Record("Ethereum", "https://e", Null, "2015-07-30", << "A" >>, Null, Lines(1))

\* the contents of topics.json, people.json, projects.json
InputFiles ==
  ({ << "A" >> } \X { KeyPeople } \X SeqsUpTo(BlockProjects, MaxProjects))
  \cup (SeqsUpTo(TopicNames, MaxTopics) \X SeqsUpTo(PersonRecords, MaxPeople)
        \X { << >>, << PlainEthereum >> })
  \cup ({ << "A", "B" >> } \X { KeyPeople } \X SeqsUpTo(AvatarProjects, MaxProjects))
  \cup ({ << "A", "B", "C" >> } \X { << >>, << ScenarioPerson >>, << InheritingPerson >> }
        \X { << >>, << PlainEthereum >> })

NoFile == << >>

EmptyMap == [x \in { } |-> NoId]

MainStart ==
  /\ pc = "read" /\ idx = 1 /\ jdx = 1 /\ allOps = << >> /\ nextId = 1
  /\ topicIdsByName = EmptyMap /\ personIdsByName = EmptyMap
  /\ projectIdsByName = EmptyMap /\ lastPosByEntity = EmptyMap
  /\ queryBlockId = NoId /\ collectionBlockId = NoId
  /\ batchFile = NoFile /\ publishCalls = << >> /\ txHash = Null

MainIdle ==
  /\ topics = << >> /\ people = << >> /\ projects = << >>
  /\ MainStart

MainInit ==
  /\ \E files \in InputFiles :
       topics = files[1] /\ people = files[2] /\ projects = files[3]
  /\ MainStart

Push(ops) == allOps' = allOps \o ops

Fail == pc' = "failed"

\* Step 1: the three JSON files are read and parsed
MainRead ==
  /\ pc = "read"
  /\ pc' = "topics"
  /\ UNCHANGED << notMain, topics, people, projects, idx, jdx, allOps, nextId, topicIdsByName,
                  personIdsByName, projectIdsByName, lastPosByEntity, queryBlockId,
                  collectionBlockId, batchFile, publishCalls, txHash >>

\* readFileSync or JSON.parse throws
MainReadFails ==
  /\ pc = "read"
  /\ Fail
  /\ UNCHANGED << notMain, topics, people, projects, idx, jdx, allOps, nextId, topicIdsByName,
                  personIdsByName, projectIdsByName, lastPosByEntity, queryBlockId,
                  collectionBlockId, batchFile, publishCalls, txHash >>

\* mutant: the topics are created without a type
TopicTypesNone == << >>

\* types: [TYPES.topic]
TopicTypes == << TYPES_topic >>

\* Step 2, one iteration: a Topic entity
MainTopic ==
  /\ pc = "topics" /\ idx <= Len(topics)
  /\ LET e == CreateEntity(nextId, topics[idx], "text", TopicTypes, << >>, << >>) IN
       /\ topicIdsByName' = (topics[idx] :> e.id) @@ topicIdsByName
       /\ Push(e.ops)
       /\ nextId' = e.next
  /\ idx' = idx + 1
  /\ UNCHANGED << notMain, topics, people, projects, pc, jdx, personIdsByName, projectIdsByName,
                  lastPosByEntity, queryBlockId, collectionBlockId, batchFile,
                  publishCalls, txHash >>

\* the end of a loop over an input list: on to the next step
LoopDone(here, list, next) ==
  /\ pc = here /\ idx > Len(list)
  /\ pc' = next /\ idx' = 1 /\ jdx' = 1
  /\ UNCHANGED << notMain, topics, people, projects, allOps, nextId, topicIdsByName,
                  personIdsByName, projectIdsByName, lastPosByEntity, queryBlockId,
                  collectionBlockId, batchFile, publishCalls, txHash >>

MainTopicsDone == LoopDone("topics", topics, "people")

\* Step 3, one iteration: a Person entity with its values and topic relations;
\* createEntity throws when a relation target is not an identifier
MainPerson ==
  /\ pc = "people" /\ idx <= Len(people)
  /\ LET person == people[idx]
         e == CreateEntity(nextId, person.name, person.description, << TYPES_person >>,
                           extractValues(person),
                           TopicRelations(topicIdsByName, person.topics))
     IN  IF e.ok
         THEN /\ personIdsByName' = (person.name :> e.id) @@ personIdsByName
              /\ Push(e.ops)
              /\ nextId' = e.next
              /\ idx' = idx + 1 /\ pc' = pc
         ELSE Fail /\ UNCHANGED << personIdsByName, allOps, nextId, idx >>
  /\ UNCHANGED << notMain, topics, people, projects, jdx, topicIdsByName, projectIdsByName,
                  lastPosByEntity, queryBlockId, collectionBlockId, batchFile,
                  publishCalls, txHash >>

MainPeopleDone == LoopDone("people", people, "projects")

\* Step 4, one iteration: a Project entity with its values and topic relations
MainProject ==
  /\ pc = "projects" /\ idx <= Len(projects)
  /\ LET project == projects[idx]
         e == CreateEntity(nextId, project.name, project.description, << TYPES_project >>,
                           extractValues(project),
                           TopicRelations(topicIdsByName, project.topics))
     IN  IF e.ok
         THEN /\ projectIdsByName' = (project.name :> e.id) @@ projectIdsByName
              /\ Push(e.ops)
              /\ nextId' = e.next
              /\ idx' = idx + 1 /\ pc' = pc
         ELSE Fail /\ UNCHANGED << projectIdsByName, allOps, nextId, idx >>
  /\ UNCHANGED << notMain, topics, people, projects, jdx, topicIdsByName, personIdsByName,
                  lastPosByEntity, queryBlockId, collectionBlockId, batchFile,
                  publishCalls, txHash >>

MainProjectsDone == LoopDone("projects", projects, "textBlocks")

\* Step 5, one line of a project's blocks: a Text Block entity, then its Blocks
\* relation at a position after the last one used for the parent
MainTextBlock ==
  /\ pc = "textBlocks" /\ idx <= Len(projects) /\ jdx <= Len(projects[idx].blocks)
  /\ LET parentId == Lookup(projectIdsByName, projects[idx].name)
         b == CreateEntity(nextId, Null, Null, << TYPES_text_block >>,
                           << Value(PROPERTIES_markdown_content, "text",
                                    projects[idx].blocks[jdx]) >>, << >>)
     IN  \E pos \in GenerateBetween(LastPos(lastPosByEntity, parentId), NoKey) :
           LET r == CreateRelation(b.next, parentId, b.id, PROPERTIES_blocks, pos, << >>) IN
             /\ lastPosByEntity' = Remember(lastPosByEntity, parentId, pos)
             /\ Push(b.ops \o r.ops)
             /\ nextId' = r.next
  /\ jdx' = jdx + 1
  /\ UNCHANGED << notMain, topics, people, projects, pc, idx, topicIdsByName, personIdsByName,
                  projectIdsByName, queryBlockId, collectionBlockId, batchFile,
                  publishCalls, txHash >>

\* Step 5: the project has no (more) lines; on to the next project
MainBlocksOfNext ==
  /\ pc = "textBlocks" /\ idx <= Len(projects) /\ jdx > Len(projects[idx].blocks)
  /\ idx' = idx + 1 /\ jdx' = 1
  /\ UNCHANGED << notMain, topics, people, projects, pc, allOps, nextId, topicIdsByName,
                  personIdsByName, projectIdsByName, lastPosByEntity, queryBlockId,
                  collectionBlockId, batchFile, publishCalls, txHash >>

MainTextBlocksDone == LoopDone("textBlocks", projects, "avatars")

\* Step 5b, one project with an avatar_url: the image is uploaded, its entity and
\* the avatar relation are appended
MainAvatar ==
  /\ pc = "avatars" /\ idx <= Len(projects) /\ projects[idx].avatar_url # Null
  /\ LET parentId == Lookup(projectIdsByName, projects[idx].name)
         img == CreateImage(nextId, "Avatar")
         r == CreateRelation(img.next, parentId, img.id, AVATAR_PROPERTY, NoKey, << >>)
     IN  /\ Push(img.ops \o r.ops)
         /\ nextId' = r.next
  /\ idx' = idx + 1
  /\ UNCHANGED << notMain, topics, people, projects, pc, jdx, topicIdsByName, personIdsByName,
                  projectIdsByName, lastPosByEntity, queryBlockId, collectionBlockId,
                  batchFile, publishCalls, txHash >>

\* Step 5b: Graph.createImage rejects (fetch or upload failed)
MainAvatarFails ==
  /\ pc = "avatars" /\ idx <= Len(projects) /\ projects[idx].avatar_url # Null
  /\ Fail
  /\ UNCHANGED << notMain, topics, people, projects, idx, jdx, allOps, nextId, topicIdsByName,
                  personIdsByName, projectIdsByName, lastPosByEntity, queryBlockId,
                  collectionBlockId, batchFile, publishCalls, txHash >>

MainNoAvatar ==
  /\ pc = "avatars" /\ idx <= Len(projects) /\ projects[idx].avatar_url = Null
  /\ idx' = idx + 1
  /\ UNCHANGED << notMain, topics, people, projects, pc, jdx, allOps, nextId, topicIdsByName,
                  personIdsByName, projectIdsByName, lastPosByEntity, queryBlockId,
                  collectionBlockId, batchFile, publishCalls, txHash >>

MainAvatarsDone == LoopDone("avatars", projects, "queryEntity")

ethereumId == Lookup(projectIdsByName, "Ethereum")

\* mutant: the query block is built without its data source marker
QueryBlockUnmarked == << >>

\* relations of the query block: [PROPERTIES.data_source_type]: QUERY_DATA_SOURCE
QueryBlockRelations == << Rel(PROPERTIES_data_source_type, QUERY_DATA_SOURCE) >>

\* Step 6a: the query data block entity
MainQueryEntity ==
  /\ pc = "queryEntity"
  /\ LET e == CreateEntity(nextId, "Related Topics", Null, << TYPES_data_block >>,
                           << Value(PROPERTIES_filter, "text", "queryFilter") >>,
                           QueryBlockRelations)
     IN  /\ queryBlockId' = e.id
         /\ Push(e.ops)
         /\ nextId' = e.next
  /\ pc' = "queryAttach"
  /\ UNCHANGED << notMain, topics, people, projects, idx, jdx, topicIdsByName, personIdsByName,
                  projectIdsByName, lastPosByEntity, collectionBlockId, batchFile,
                  publishCalls, txHash >>

\* a data block is attached to Ethereum after the last position used for it, with
\* a View set on the Blocks relation; createRelation throws without an Ethereum id
AttachDataBlock(here, blockId, view, next) ==
  /\ pc = here
  /\ \E pos \in GenerateBetween(LastPos(lastPosByEntity, ethereumId), NoKey) :
       LET r == CreateRelation(nextId, ethereumId, blockId, PROPERTIES_blocks, pos,
                               << Rel(PROPERTIES_view, view) >>) IN
         /\ lastPosByEntity' = Remember(lastPosByEntity, ethereumId, pos)
         /\ IF r.ok
            THEN Push(r.ops) /\ nextId' = r.next /\ pc' = next
            ELSE Fail /\ UNCHANGED << allOps, nextId >>
  /\ UNCHANGED << notMain, topics, people, projects, idx, jdx, topicIdsByName, personIdsByName,
                  projectIdsByName, queryBlockId, collectionBlockId, batchFile,
                  publishCalls, txHash >>

MainQueryAttach ==
  AttachDataBlock("queryAttach", queryBlockId, VIEWS_gallery, "collectionEntity")

\* mutant: the collection items are listed in the opposite order
CollectionItemsSwapped(vitalikId, satoshiId) ==
  << Rel(PROPERTIES_data_source_type, COLLECTION_DATA_SOURCE),
     Rel(PROPERTIES_collection_item, satoshiId),
     Rel(PROPERTIES_collection_item, vitalikId) >>

\* relations of the collection block: the marker, then one item per person
CollectionBlockRelations(vitalikId, satoshiId) ==
  << Rel(PROPERTIES_data_source_type, COLLECTION_DATA_SOURCE),
     Rel(PROPERTIES_collection_item, vitalikId),
     Rel(PROPERTIES_collection_item, satoshiId) >>

\* Step 6b: the collection data block entity; createEntity throws when a listed
\* person was not created
MainCollectionEntity ==
  /\ pc = "collectionEntity"
  /\ LET vitalikId == Lookup(personIdsByName, "Vitalik Buterin")
         satoshiId == Lookup(personIdsByName, "Satoshi Nakamoto")
         e == CreateEntity(nextId, "Key People", Null, << TYPES_data_block >>, << >>,
                           CollectionBlockRelations(vitalikId, satoshiId))
     IN  IF e.ok
         THEN /\ collectionBlockId' = e.id
              /\ Push(e.ops)
              /\ nextId' = e.next
              /\ pc' = "collectionAttach"
         ELSE Fail /\ UNCHANGED << collectionBlockId, allOps, nextId >>
  /\ UNCHANGED << notMain, topics, people, projects, idx, jdx, topicIdsByName, personIdsByName,
                  projectIdsByName, lastPosByEntity, queryBlockId, batchFile,
                  publishCalls, txHash >>

MainCollectionAttach ==
  AttachDataBlock("collectionAttach", collectionBlockId, VIEWS_list, "print")

\* mutant: printOps never finds operations to write
NonEmptyNever(ops) == FALSE

\* printOps: ops.length > 0
NonEmpty(ops) == Len(ops) > 0

\* Step 8: printOps(allOps, "data_to_delete", "demo_publish_ops.txt")
MainPrintOps ==
  /\ pc = "print"
  /\ batchFile' = IF NonEmpty(allOps) THEN allOps ELSE batchFile
  /\ pc' = "publish"
  /\ UNCHANGED << notMain, topics, people, projects, idx, jdx, allOps, nextId, topicIdsByName,
                  personIdsByName, projectIdsByName, lastPosByEntity, queryBlockId,
                  collectionBlockId, publishCalls, txHash >>

\* writeFileSync throws (the output directory is missing)
MainPrintOpsFails ==
  /\ pc = "print"
  /\ Fail
  /\ UNCHANGED << notMain, topics, people, projects, idx, jdx, allOps, nextId, topicIdsByName,
                  personIdsByName, projectIdsByName, lastPosByEntity, queryBlockId,
                  collectionBlockId, batchFile, publishCalls, txHash >>

\* mutant: the publish call is also reachable before the last attachment
ReadyToPublishEarly == pc \in { "publish", "collectionAttach" }

\* the position of the publishOps call in main
ReadyToPublish == pc = "publish"

\* Step 8: publishOps(allOps, "Demo: publish sample entities") is called; it
\* resolves with a transaction hash or rejects
MainPublish ==
  /\ ReadyToPublish
  /\ publishCalls' = Append(publishCalls, [ops |-> allOps, editName |-> "Demo: publish sample entities"])
  /\ \/ pc' = "done" /\ txHash' = "0xhash"
     \/ Fail /\ txHash' = txHash
  /\ UNCHANGED << notMain, topics, people, projects, idx, jdx, allOps, nextId, topicIdsByName,
                  personIdsByName, projectIdsByName, lastPosByEntity, queryBlockId,
                  collectionBlockId, batchFile >>

MainNext ==
  \/ MainRead \/ MainReadFails
  \/ MainTopic \/ MainTopicsDone
  \/ MainPerson \/ MainPeopleDone
  \/ MainProject \/ MainProjectsDone
  \/ MainTextBlock \/ MainBlocksOfNext \/ MainTextBlocksDone
  \/ MainAvatar \/ MainAvatarFails \/ MainNoAvatar \/ MainAvatarsDone
  \/ MainQueryEntity \/ MainQueryAttach
  \/ MainCollectionEntity \/ MainCollectionAttach
  \/ MainPrintOps \/ MainPrintOpsFails
  \/ MainPublish

MaxRuns == 2

\* the publish script is run again once a run has ended: a new process, which finds
\* the input files and data_to_delete/demo_publish_ops.txt as the last run left
\* them; the SDK never generates an id a second time
MainRunAgain ==
  /\ pc \in { "done", "failed" } /\ run < MaxRuns
  /\ run' = run + 1
  /\ pc' = "read" /\ idx' = 1 /\ jdx' = 1 /\ allOps' = << >>
  /\ topicIdsByName' = EmptyMap /\ personIdsByName' = EmptyMap
  /\ projectIdsByName' = EmptyMap /\ lastPosByEntity' = EmptyMap
  /\ queryBlockId' = NoId /\ collectionBlockId' = NoId
  /\ publishCalls' = << >> /\ txHash' = Null
  /\ UNCHANGED << notRuns, topics, people, projects, nextId, batchFile >>

RunsNext == MainNext \/ MainRunAgain

(***************************************************************************)
(* gql and publishOps (src/functions).                                     *)
(***************************************************************************)
MaxSpaces == 2

MaxMembers == 1

SpaceIds == { "s1", "s2" }

\* what the spaces(filter: {address}) query holds for the wallet: { id type } rows
SpacesRows == SeqsUpTo([id : SpaceIds, type : { "PERSONAL", "DAO" }], MaxSpaces)

MemberLists == SeqsUpTo(SpaceIds, MaxMembers)

NoSpace == [found |-> FALSE, type |-> "", address |-> "", membersList |-> << >>,
            editorsList |-> << >>]

\* what the space(id) query holds: null, or the space's type, address and lists
SpaceAnswers ==
  { NoSpace } \cup
  [found : { TRUE }, type : { "PERSONAL", "DAO", "OTHER" }, address : { "0xdao" },
   membersList : MemberLists, editorsList : MemberLists]

Envs == [DEMO_SPACE_ID : { Null, "", "space" }, PK_SW : { Null, "", "0xkey" }]

\* an HTTP exchange of gql: fetch resolves or rejects, res.ok, json.errors
Responses == { [net |-> TRUE, ok |-> TRUE, errors |-> FALSE],
               [net |-> TRUE, ok |-> TRUE, errors |-> TRUE],
               [net |-> TRUE, ok |-> FALSE, errors |-> FALSE],
               [net |-> TRUE, ok |-> FALSE, errors |-> TRUE],
               [net |-> FALSE, ok |-> FALSE, errors |-> FALSE] }

\* mutant: gql does not look at json.errors
GqlErrorStatusOnly(r) ==
  IF ~r.net THEN "fetch failed"
  ELSE IF ~r.ok THEN "API error"
  ELSE Null

\* gql: the error it throws for a response, Null when it returns json.data
GqlError(r) ==
  IF ~r.net THEN "fetch failed"
  ELSE IF ~r.ok THEN "API error"
  ELSE IF r.errors THEN "GraphQL"
  ELSE Null

Call(name, arg, to, data) == [call |-> name, arg |-> arg, to |-> to, data |-> data]

\* mutant: an environment variable is never found unset
UnsetNever(v) == FALSE

\* !spaceId, !privateKey: the variable is undefined or the empty string
Unset(v) == v \in { Null, "" }

\* one gql call as logged: the query, the response and whether data was returned
Logged(query, r) == [query |-> query, response |-> r, returned |-> GqlError(r) = Null]

PubStart ==
  /\ ppc = "env" /\ author = Null /\ personalSpaceData = << >> /\ spaceData = NoSpace
  /\ pto = Null /\ pcalldata = Null /\ calls = << >> /\ failedCall = Null
  /\ presult = Null /\ perror = Null /\ gqlLog = << >>

PubIdle ==
  /\ penv = [DEMO_SPACE_ID |-> Null, PK_SW |-> Null]
  /\ walletAddress = Null /\ apiSpaces = << >> /\ apiSpace = NoSpace
  /\ PubStart

PubInit ==
  /\ penv \in Envs
  /\ IF Unset(penv.DEMO_SPACE_ID) \/ Unset(penv.PK_SW)
     THEN walletAddress = "0xauthor" /\ apiSpaces = << >> /\ apiSpace = NoSpace
     ELSE /\ walletAddress \in { "0xauthor", Null }
          /\ apiSpaces \in SpacesRows
          /\ apiSpace \in SpaceAnswers
  /\ PubStart

Throw(error) == ppc' = "thrown" /\ perror' = error

\* mutant: a failed external call leaves publishOps where it was, to try again
AfterFailureRetry == ppc

\* where publishOps is after an external call has failed: the error propagates
AfterFailure == "thrown"

CallFails(name, error) ==
  /\ ppc' = AfterFailure /\ perror' = error /\ failedCall' = name

\* lines 332-336: both environment variables must be set
PubCheckEnv ==
  /\ ppc = "env"
  /\ IF Unset(penv.DEMO_SPACE_ID) THEN Throw("DEMO_SPACE_ID not set in .env")
     ELSE IF Unset(penv.PK_SW) THEN Throw("PK_SW not set in .env")
     ELSE ppc' = "wallet" /\ perror' = perror
  /\ UNCHANGED << notPub, penv, walletAddress, apiSpaces, apiSpace, author,
                  personalSpaceData, spaceData, pto, pcalldata, calls, failedCall, presult,
                  gqlLog >>

\* lines 338-342: the wallet client is created and the author address read
PubWallet ==
  /\ ppc = "wallet"
  /\ calls' = Append(calls, Call("getSmartAccountWalletClient", penv.PK_SW, Null, Null))
  /\ \/ /\ author' = walletAddress /\ ppc' = "callerQuery"
        /\ UNCHANGED << perror, failedCall >>
     \/ /\ CallFails("getSmartAccountWalletClient", "wallet client failed")
        /\ author' = author
  /\ UNCHANGED << notPub, penv, walletAddress, apiSpaces, apiSpace, personalSpaceData,
                  spaceData, pto, pcalldata, presult, gqlLog >>

\* lines 344-349: the caller's spaces are queried, then the author is checked
PubCallerQuery ==
  /\ ppc = "callerQuery"
  /\ calls' = Append(calls, Call("gql spaces", author, Null, Null))
  /\ \E r \in Responses :
       /\ gqlLog' = Append(gqlLog, Logged("gql spaces", r))
       /\ IF GqlError(r) # Null
          THEN /\ CallFails("gql spaces", GqlError(r))
               /\ personalSpaceData' = personalSpaceData
          ELSE /\ personalSpaceData' = apiSpaces
               /\ failedCall' = failedCall
               /\ IF author = Null
                  THEN Throw("Smart Wallet address not found from private key.")
                  ELSE ppc' = "spaceQuery" /\ perror' = perror
  /\ UNCHANGED << notPub, penv, walletAddress, apiSpaces, apiSpace, author, spaceData,
                  pto, pcalldata, presult >>

\* lines 353-366: the target space is queried and must exist
PubSpaceQuery ==
  /\ ppc = "spaceQuery"
  /\ calls' = Append(calls, Call("gql space", penv.DEMO_SPACE_ID, Null, Null))
  /\ \E r \in Responses :
       /\ gqlLog' = Append(gqlLog, Logged("gql space", r))
       /\ IF GqlError(r) # Null
          THEN /\ CallFails("gql space", GqlError(r))
               /\ spaceData' = spaceData
          ELSE /\ spaceData' = apiSpace
               /\ failedCall' = failedCall
               /\ IF ~apiSpace.found
                  THEN Throw("Space not found")
                  ELSE ppc' = "edit" /\ perror' = perror
  /\ UNCHANGED << notPub, penv, walletAddress, apiSpaces, apiSpace, author,
                  personalSpaceData, pto, pcalldata, presult >>

\* mutant: the branch of publishOps is inverted
IsPersonalInverted(spaceType) == spaceType # "PERSONAL"

\* line 371: spaceType === "PERSONAL"
IsPersonal(spaceType) == spaceType = "PERSONAL"

\* mutant: the caller's first space of any type is taken
CallerSpaceAnyType(spaces) ==
  SelectSeq(spaces, LAMBDA sp : TRUE)

\* lines 386-388: personalSpaceData.spaces?.find(s => s.type === "PERSONAL"); the
\* spaces found, of which find takes the first (none: undefined)
CallerSpace(spaces) ==
  SelectSeq(spaces, LAMBDA sp : sp.type = "PERSONAL")

\* lines 399-406: [...members, ...editors].some(m => m.memberSpaceId === callerSpaceId)
IsMemberOrEditor(space, callerSpaceId) ==
  LET allCandidates == space.membersList \o space.editorsList IN
  \E i \in 1 .. Len(allCandidates) : allCandidates[i] = callerSpaceId

\* an external call that prepares an edit resolves with { to, calldata } or rejects
PrepareEdit(name, authorSpace) ==
  /\ calls' = Append(calls, Call(name, authorSpace, Null, Null))
  /\ \/ /\ pto' = "to of " \o name /\ pcalldata' = "calldata of " \o name
        /\ ppc' = "send"
        /\ UNCHANGED << perror, failedCall >>
     \/ /\ CallFails(name, "edit failed")
        /\ UNCHANGED << pto, pcalldata >>

\* lines 371-429: the edit is prepared, directly for a personal space, as a
\* proposal after the caller's standing is verified for any other space
PubEdit ==
  /\ ppc = "edit"
  /\ IF IsPersonal(spaceData.type)
     THEN PrepareEdit("personalSpace.publishEdit", penv.DEMO_SPACE_ID)
     ELSE LET found == CallerSpace(personalSpaceData) IN
          IF found = << >>
          THEN /\ Throw("No personal space found for wallet")
               /\ UNCHANGED << calls, pto, pcalldata, failedCall >>
          ELSE IF ~IsMemberOrEditor(spaceData, found[1].id)
          THEN /\ Throw("Your personal space is not a member or editor of DAO space")
               /\ UNCHANGED << calls, pto, pcalldata, failedCall >>
          ELSE PrepareEdit("daoSpace.proposeEdit", found[1].id)
  /\ UNCHANGED << notPub, penv, walletAddress, apiSpaces, apiSpace, author,
                  personalSpaceData, spaceData, presult, gqlLog >>

\* lines 431-433: the transaction is sent and its hash returned
PubSend ==
  /\ ppc = "send"
  /\ calls' = Append(calls, Call("sendTransaction", Null, pto, pcalldata))
  /\ \/ /\ presult' = "0xhash" /\ ppc' = "returned"
        /\ UNCHANGED << perror, failedCall >>
     \/ /\ CallFails("sendTransaction", "transaction failed")
        /\ presult' = presult
  /\ UNCHANGED << notPub, penv, walletAddress, apiSpaces, apiSpace, author,
                  personalSpaceData, spaceData, pto, pcalldata, gqlLog >>

PubNext == PubCheckEnv \/ PubWallet \/ PubCallerQuery \/ PubSpaceQuery \/ PubEdit \/ PubSend

CleanIdle ==
  /\ recordFile = [status |-> "missing", ops |-> << >>]
  /\ cpc = "read" /\ cops = [null |-> TRUE, ops |-> << >>] /\ del_ops = << >>
  /\ deleteFile = NoFile /\ cleanupCalls = << >>

NoBuild == [id |-> NoId, values |-> << >>, ops |-> << >>]

NoUnset == [id |-> NoId, property |-> NoId]

NothingReplayed == [values |-> << >>, rels |-> << >>]

ReplayIdle ==
  /\ rbatch = << >> /\ rcall = NoBuild /\ rnext = 1 /\ rpos = 0
  /\ rvalues = << >> /\ rrels = << >> /\ rbefore = NothingReplayed /\ runset = NoUnset

RunIdle == run = 1

NoUuid == [form |-> "none", bytes |-> << >>, chars |-> << >>]

PrintIdle == uin = NoUuid /\ uout = NoUuid

RestIdle == ReplayIdle /\ RunIdle /\ PrintIdle

Init == MainInit /\ PosIdle /\ ChainIdle /\ PubIdle /\ CleanIdle /\ RestIdle

Next == MainNext

Spec == Init /\ [][Next]_vars

PosInit == PosIdle /\ ChainIdle /\ MainIdle /\ PubIdle /\ CleanIdle /\ RestIdle

SpecRuns == Init /\ [][RunsNext]_vars

SpecPos == PosInit /\ [][PosNext]_vars

ChainStart == ChainInit /\ PosIdle /\ MainIdle /\ PubIdle /\ CleanIdle /\ RestIdle

SpecChain == ChainStart /\ [][ChainCall]_vars

PublishInit == PubInit /\ PosIdle /\ ChainIdle /\ MainIdle /\ CleanIdle /\ RestIdle

SpecPublish == PublishInit /\ [][PubNext]_vars

(***************************************************************************)
(* The cleanup script (03_delete_demo).  It reads the persisted batch      *)
(* record and builds the compensating batch del_ops.  An operation of the  *)
(* cleanup batch has the fields type, id and unset.                        *)
(***************************************************************************)
MaxRecordOps == 3

\* Graph.updateEntity({ id, unset })
UpdateEntity(id, unset) == << [type |-> "updateEntity", id |-> id, unset |-> unset] >>

\* Graph.deleteRelation({ id })
DeleteRelation(id) == << [type |-> "deleteRelation", id |-> id, unset |-> << >>] >>

\* the operation records a batch record is made of: two createEntity records of
\* one entity, an entity without values, a value without a property, a relation,
\* a second record of the same relation id, and a sub-relation of a relation
RecordOps ==
  { EntityOp(GenId(1), << Value(PROPERTIES_name, "text", "n") >>),
    EntityOp(GenId(1), << Value(PROPERTIES_description, "text", "d") >>),
    EntityOp(GenId(2), << >>),
    EntityOp(GenId(2), << Value(NoId, "text", "x"), Value(PROPERTIES_web_url, "text", "u") >>),
    RelationOp(GenId(3), GenId(1), PROPERTIES_types, TYPES_topic, NoKey),
    RelationOp(GenId(3), GenId(2), PROPERTIES_types, TYPES_topic, NoKey),
    RelationOp(GenId(4), GenId(3), PROPERTIES_view, VIEWS_list, NoKey) }

RecordFiles ==
  { [status |-> "missing", ops |-> << >>], [status |-> "invalid", ops |-> << >>] }
  \cup { [status |-> "ok", ops |-> o] : o \in SeqsUpTo(RecordOps, MaxRecordOps) }

CleanInit ==
  /\ recordFile \in RecordFiles
  /\ cpc = "read" /\ cops = [null |-> TRUE, ops |-> << >>] /\ del_ops = << >>
  /\ deleteFile = NoFile /\ cleanupCalls = << >>

\* mutant: a record that cannot be read counts as an empty list of operations
readOpsFromFileLenient == [null |-> FALSE, ops |-> recordFile.ops]

\* readOpsFromFile: null when the file is missing or is not valid JSON
readOpsFromFile ==
  IF recordFile.status = "ok" THEN [null |-> FALSE, ops |-> recordFile.ops]
  ELSE [null |-> TRUE, ops |-> << >>]

IdsOfType(ops, type) ==
  LET chosen == SelectSeq(ops, LAMBDA op : op.type = type)
  IN  [i \in 1 .. Len(chosen) |-> chosen[i].id]

\* mutant: repeated ids are kept
KeepAll(s) == s

\* [...new Set(s)]: each element once, in order of first occurrence
RECURSIVE Unique(_)
Unique(s) ==
  IF s = << >> THEN << >>
  ELSE LET rest == Unique(SubSeq(s, 1, Len(s) - 1))
           x == s[Len(s)]
       IN  IF \E i \in 1 .. Len(rest) : rest[i] = x THEN rest ELSE Append(rest, x)

getPropertyIdsFromUpdateOp(ops, entityId) ==
  LET found == SelectSeq(ops, LAMBDA op : op.type = "createEntity" /\ op.id = entityId)
  IN  IF found = << >> THEN << >>
      ELSE LET updateOp == found[1]
               props == [i \in 1 .. Len(updateOp.values) |-> updateOp.values[i].property]
           IN  SelectSeq(props, LAMBDA propertyId : propertyId # NoId)

\* mutant: updateEntity is built also for an empty list of properties
AnyProperties(properties) == TRUE

\* properties.length > 0
HasProperties(properties) == Len(properties) > 0

\* the loop over uniqueEntityIds
RECURSIVE UnsetOps(_, _)
UnsetOps(ops, entityIds) ==
  IF entityIds = << >> THEN << >>
  ELSE LET properties == getPropertyIdsFromUpdateOp(ops, Head(entityIds))
       IN  (IF HasProperties(properties)
            THEN UpdateEntity(Head(entityIds),
                              [i \in 1 .. Len(properties) |-> [property |-> properties[i]]])
            ELSE << >>)
           \o UnsetOps(ops, Tail(entityIds))

\* the loop over uniqueRelationIds
RECURSIVE DeleteOps(_)
DeleteOps(relationIds) ==
  IF relationIds = << >> THEN << >>
  ELSE DeleteRelation(Head(relationIds)) \o DeleteOps(Tail(relationIds))

CleanRead ==
  /\ cpc = "read"
  /\ cops' = readOpsFromFile
  /\ cpc' = "entities"
  /\ UNCHANGED << notClean, recordFile, del_ops, deleteFile, cleanupCalls >>

\* ops.filter on null throws; otherwise one updateEntity per entity with properties
CleanEntities ==
  /\ cpc = "entities"
  /\ IF cops.null
     THEN cpc' = "failed" /\ del_ops' = del_ops
     ELSE /\ del_ops' = del_ops \o UnsetOps(cops.ops, Unique(IdsOfType(cops.ops, "createEntity")))
          /\ cpc' = "relations"
  /\ UNCHANGED << notClean, recordFile, cops, deleteFile, cleanupCalls >>

CleanRelations ==
  /\ cpc = "relations"
  /\ del_ops' = del_ops \o DeleteOps(Unique(IdsOfType(cops.ops, "createRelation")))
  /\ cpc' = "print"
  /\ UNCHANGED << notClean, recordFile, cops, deleteFile, cleanupCalls >>

CleanPrintOps ==
  /\ cpc = "print"
  /\ deleteFile' = IF NonEmpty(del_ops) THEN del_ops ELSE deleteFile
  /\ cpc' = "publish"
  /\ UNCHANGED << notClean, recordFile, cops, del_ops, cleanupCalls >>

\* writeFileSync throws
CleanPrintOpsFails ==
  /\ cpc = "print" /\ NonEmpty(del_ops)
  /\ cpc' = "failed"
  /\ UNCHANGED << notClean, recordFile, cops, del_ops, deleteFile, cleanupCalls >>

CleanPublish ==
  /\ cpc = "publish"
  /\ cleanupCalls' = Append(cleanupCalls, [ops |-> del_ops, editName |-> "Demo: delete sample entities"])
  /\ cpc' \in { "done", "failed" }
  /\ UNCHANGED << notClean, recordFile, cops, del_ops, deleteFile >>

CleanNext ==
  \/ CleanRead
  \/ CleanEntities
  \/ CleanRelations
  \/ CleanPrintOps \/ CleanPrintOpsFails
  \/ CleanPublish

CleanupInit == CleanInit /\ PosIdle /\ ChainIdle /\ MainIdle /\ PubIdle /\ RestIdle

SpecCleanup == CleanupInit /\ [][CleanNext]_vars

(***************************************************************************)
(* Building a batch with the SDK's builders and replaying it.  Replaying   *)
(* createEntity adds the operation's values to the entity, createRelation  *)
(* adds the relation, updateEntity removes every value of the unset        *)
(* properties from the entity, deleteRelation removes the relation.        *)
(***************************************************************************)
MaxBuilds == 2

\* the value lists given to createEntity: a property once, twice, three times,
\* two properties in both orders
ValueLists ==
  { << >>,
    << Value(PROPERTIES_web_url, "text", "x") >>,
    << Value(PROPERTIES_web_url, "text", "x"), Value(PROPERTIES_web_url, "text", "y") >>,
    << Value(PROPERTIES_web_url, "text", "y"), Value(PROPERTIES_web_url, "text", "x"),
       Value(PROPERTIES_web_url, "text", "x") >>,
    << Value(PROPERTIES_web_url, "text", "x"), Value(PROPERTIES_birth_date, "date", "d") >>,
    << Value(PROPERTIES_birth_date, "date", "d"), Value(PROPERTIES_web_url, "text", "x"),
       Value(PROPERTIES_birth_date, "date", "e") >> }

UnsetProperties == { PROPERTIES_name, PROPERTIES_web_url, PROPERTIES_birth_date }

StoredValue(entity, v) == [entity |-> entity, property |-> v.property, value |-> v.value]

\* mutant: only the first value of an unset property is removed
RemoveFirstValue(values, id, properties) ==
  LET hit(i) == values[i].entity = id /\ values[i].property \in properties
      first == { i \in 1 .. Len(values) : hit(i) /\ \A j \in 1 .. i - 1 : ~hit(j) }
  IN  [ i \in 1 .. Len(values) - Cardinality(first) |->
          IF \E f \in first : f <= i THEN values[i + 1] ELSE values[i] ]

RemoveValues(values, id, properties) ==
  SelectSeq(values, LAMBDA v : ~(v.entity = id /\ v.property \in properties))

ReplayValues(values, op) ==
  IF op.type = "createEntity"
  THEN values \o [i \in 1 .. Len(op.values) |-> StoredValue(op.id, op.values[i])]
  ELSE IF op.type = "updateEntity"
  THEN RemoveValues(values, op.id, { op.unset[i].property : i \in 1 .. Len(op.unset) })
  ELSE values

ReplayRelations(rels, op) ==
  IF op.type = "createRelation"
  THEN Append(rels, [id |-> op.id, from |-> op.from, relType |-> op.relType, to |-> op.to])
  ELSE IF op.type = "deleteRelation"
  THEN SelectSeq(rels, LAMBDA r : r.id # op.id)
  ELSE rels

BuiltEntities == IdsOfType(rbatch, "createEntity")

\* Graph.createEntity({ name, types, values }), its operations appended to the batch
BuildEntity ==
  /\ rpos = 0 /\ Len(BuiltEntities) < MaxBuilds
  /\ \E values \in ValueLists, name \in { Null, "n" }, types \in { << >>, << TYPES_topic >> } :
       LET e == CreateEntity(rnext, name, Null, types, values, << >>) IN
         /\ rbatch' = rbatch \o e.ops
         /\ rcall' = [id |-> e.id, values |-> values, ops |-> e.ops]
         /\ rnext' = e.next
  /\ UNCHANGED << notReplay, rpos, rvalues, rrels, rbefore, runset >>

StartReplay ==
  /\ rpos = 0 /\ rbatch # << >>
  /\ rpos' = 1
  /\ UNCHANGED << notReplay, rbatch, rcall, rnext, rvalues, rrels, rbefore, runset >>

ReplayOp ==
  /\ rpos \in 1 .. Len(rbatch)
  /\ rvalues' = ReplayValues(rvalues, rbatch[rpos])
  /\ rrels' = ReplayRelations(rrels, rbatch[rpos])
  /\ rpos' = rpos + 1
  /\ UNCHANGED << notReplay, rbatch, rcall, rnext, rbefore, runset >>

\* Graph.updateEntity({ id, unset: [{ property }] }) for an entity of the batch, its
\* operations appended to the batch that has been replayed
UnsetProperty ==
  /\ rpos > Len(rbatch) /\ runset = NoUnset
  /\ \E i \in 1 .. Len(BuiltEntities), property \in UnsetProperties :
       /\ runset' = [id |-> BuiltEntities[i], property |-> property]
       /\ rbatch' = rbatch \o UpdateEntity(BuiltEntities[i], << [property |-> property] >>)
  /\ rbefore' = [values |-> rvalues, rels |-> rrels]
  /\ UNCHANGED << notReplay, rcall, rnext, rpos, rvalues, rrels >>

ReplayNext == BuildEntity \/ StartReplay \/ ReplayOp \/ UnsetProperty

ReplayInit ==
  /\ ReplayIdle /\ PosIdle /\ ChainIdle /\ MainIdle /\ PubIdle /\ CleanIdle
  /\ RunIdle /\ PrintIdle

SpecReplay == ReplayInit /\ [][ReplayNext]_vars

(***************************************************************************)
(* printOps: how an identifier held by an operation is rendered in the     *)
(* file.  A held identifier is a byte array (an object with the keys 0 to  *)
(* 15 and numbers as values) or a string; a string is the sequence of its  *)
(* characters.                                                             *)
(***************************************************************************)
UuidBytes == 16

UuidStringLength == 36

Hex == << "0", "1", "2", "3", "4", "5", "6", "7", "8", "9", "a", "b", "c", "d", "e", "f" >>

LowerHex == { Hex[i] : i \in 1 .. Len(Hex) }

UpperHex == { "A", "B", "C", "D", "E", "F" }

DashAt == { 9, 14, 19, 24 }

Bytes(b) == [form |-> "bytes", bytes |-> b, chars |-> << >>]

String(c) == [form |-> "string", bytes |-> << >>, chars |-> c]

\* Object.keys(obj).length === 16 with a number under each key "0" .. "15"
isUuidByteArray(obj) == obj.form = "bytes" /\ Len(obj.bytes) = UuidBytes

\* n.toString(16).padStart(2, "0"), for a byte
ByteToHex(n) == << Hex[(n \div 16) + 1], Hex[(n % 16) + 1] >>

RECURSIVE HexOfBytes(_)
HexOfBytes(b) == IF b = << >> THEN << >> ELSE ByteToHex(Head(b)) \o HexOfBytes(Tail(b))

uuidBytesToString(obj) == String(HexOfBytes(obj.bytes))

\* /^[0-9a-f]{8}-[0-9a-f]{4}-[0-9a-f]{4}-[0-9a-f]{4}-[0-9a-f]{12}$/i
MatchesDashedUuid(c) ==
  /\ Len(c) = UuidStringLength
  /\ \A i \in 1 .. Len(c) :
       IF i \in DashAt THEN c[i] = "-" ELSE c[i] \in LowerHex \cup UpperHex

\* convertUuidBytes at an identifier: a dashed UUID string loses its dashes, a
\* byte array becomes its hex string, anything else is kept
convertUuidBytes(obj) ==
  IF obj.form = "string"
  THEN (IF MatchesDashedUuid(obj.chars)
        THEN String(SelectSeq(obj.chars, LAMBDA ch : ch # "-"))
        ELSE obj)
  ELSE IF isUuidByteArray(obj) THEN uuidBytesToString(obj)
  ELSE obj

SampleBytes == { 0, 9, 10, 171, 255 }

SampleChars == { "0", "9", "a", "f", "A", "F" }

Dashed(h) ==
  [i \in 1 .. UuidStringLength |->
     IF i \in DashAt THEN "-" ELSE h[i - Cardinality({ d \in DashAt : d < i })]]

\* the identifiers operations hold: 16-byte arrays, dashed UUID strings, and
\* strings of 32 hex characters as the identifier registry has them
HeldIds ==
  { Bytes([i \in 1 .. UuidBytes |-> IF i = k THEN b ELSE c]) :
      k \in 1 .. UuidBytes, b \in SampleBytes, c \in SampleBytes }
  \cup { String(Dashed([i \in 1 .. 2 * UuidBytes |-> IF i = k THEN x ELSE y])) :
           k \in { 1, 8, 9, 32 }, x \in SampleChars, y \in SampleChars }
  \cup { String([i \in 1 .. 2 * UuidBytes |-> x]) : x \in { "0", "a", "7" } }

PrintInit ==
  /\ uin \in HeldIds /\ uout = NoUuid
  /\ PosIdle /\ ChainIdle /\ MainIdle /\ PubIdle /\ CleanIdle /\ ReplayIdle /\ RunIdle

\* printOps converts the operations before writing them
PrintId ==
  /\ uout = NoUuid
  /\ uout' = convertUuidBytes(uin)
  /\ UNCHANGED << notPrint, uin >>

SpecPrint == PrintInit /\ [][PrintId]_vars

\* C1: every call generateBetween(a, b), with each bound null or a generated key
\* and a < b, returns a key strictly between the bounds, equal to neither.
C1_StrictlyBetween ==
  lastCall.out # NoKey =>
    /\ StrictlyBetween(lastCall.lo, lastCall.out, lastCall.hi)
    /\ lastCall.out # lastCall.lo
    /\ lastCall.out # lastCall.hi

C1_Witness ==
  /\ lastCall.lo # NoKey /\ lastCall.hi # NoKey
  /\ lastCall.out # NoKey
  /\ Len(keys) = MaxKeys

\* C3: the chain k1 = gen(null, null), k(i+1) = gen(k(i), null) is strictly
\* increasing, holds no key twice, and its next call again returns a key.
C3_ChainIncreasing ==
  cmode = "after" =>
    /\ Len(chist) = cn
    /\ \A i \in 1 .. Len(chist) : \A j \in 1 .. Len(chist) :
         i < j => LexLess(chist[i], chist[j]) /\ chist[i] # chist[j]
    /\ \A k \in GenerateBetween(clo, chi) : StrictlyBetween(clo, k, chi)

C3_Witness == cmode = "after" /\ cn = ChainLen /\ Len(chist) = ChainLen

\* C4: between two adjacent generated keys, successive insertions (each between
\* one original neighbour and the key inserted last) always return a key strictly
\* between the two neighbours passed, hence inside the original pair.
C4_Dense ==
  (cmode \in { "lo", "hi", "alt" } /\ cn > 2) =>
    /\ ccall.lo # NoKey /\ ccall.hi # NoKey
    /\ StrictlyBetween(ccall.lo, cout, ccall.hi)
    /\ cout # ccall.lo /\ cout # ccall.hi
    /\ StrictlyBetween(chist[1], cout, chist[2])
    /\ \A i \in 1 .. (Len(chist) - 1) : chist[i] # cout

C4_Witness == cmode = "alt" /\ cn = ChainLen /\ cn - 2 >= 50

IsBlocksRelation(op) == op.type = "createRelation" /\ op.relType = PROPERTIES_blocks

\* C2: in the batch, the ordering keys of the Blocks relations of any one parent
\* are strictly increasing in the order of attachment, whatever was attached to
\* other parents in between; once both data blocks are attached, the parent's
\* last two Blocks relations are the query block's, then the collection block's.
C2_BlockKeysIncrease ==
  /\ \A i \in 1 .. Len(allOps) : \A j \in 1 .. Len(allOps) :
       (/\ i < j
        /\ IsBlocksRelation(allOps[i]) /\ IsBlocksRelation(allOps[j])
        /\ allOps[i].from = allOps[j].from)
       => /\ allOps[i].position # NoKey
          /\ LexLess(allOps[i].position, allOps[j].position)
  /\ pc \in { "print", "publish", "done" } =>
       LET mine == SelectSeq(allOps, LAMBDA op : IsBlocksRelation(op) /\ op.from = ethereumId)
       IN  /\ Len(mine) >= 2
           /\ mine[Len(mine) - 1].to = queryBlockId
           /\ mine[Len(mine)].to = collectionBlockId

C2_Witness ==
  /\ pc = "done"
  /\ Cardinality({ i \in 1 .. Len(allOps) :
                     IsBlocksRelation(allOps[i]) /\ allOps[i].from = ethereumId }) >= 4
  /\ \E i \in 1 .. Len(allOps) : \E j \in 1 .. Len(allOps) : \E k \in 1 .. Len(allOps) :
       /\ i < j /\ j < k
       /\ IsBlocksRelation(allOps[i]) /\ IsBlocksRelation(allOps[j]) /\ IsBlocksRelation(allOps[k])
       /\ allOps[i].from = ethereumId /\ allOps[k].from = ethereumId
       /\ allOps[j].from # ethereumId

\* C5: publishOps is called at most once, with the whole batch, after the last
\* operation of the run (the View of the collection block's Blocks relation) has
\* been appended; a run that ends normally has made the call.
C5_OnePublishOfWholeBatch ==
  /\ Len(publishCalls) <= 1
  /\ publishCalls # << >> =>
       /\ pc \in { "done", "failed" }
       /\ publishCalls[1].ops = allOps
       /\ collectionBlockId # NoId
       /\ allOps[Len(allOps)].relType = PROPERTIES_view
       /\ allOps[Len(allOps)].to = VIEWS_list
       /\ allOps[Len(allOps) - 1].to = collectionBlockId
  /\ pc = "done" => Len(publishCalls) = 1

C5_Witness ==
  /\ pc = "done" /\ Len(publishCalls) = 1
  /\ Len(publishCalls[1].ops) > 20
  /\ \E i \in 1 .. Len(allOps) : allOps[i].relType = AVATAR_PROPERTY

HasCall(name) == \E i \in 1 .. Len(calls) : calls[i].call = name

Count(name) == Len(SelectSeq(calls, LAMBDA c : c.call = name))

EditCalls == { "personalSpace.publishEdit", "daoSpace.proposeEdit" }

\* the wallet owns a PERSONAL space that the target space lists as member or editor
HasStanding ==
  \E i \in 1 .. Len(apiSpaces) :
    apiSpaces[i].type = "PERSONAL" /\ IsMemberOrEditor(apiSpace, apiSpaces[i].id)

\* C6: for a target space whose type is not PERSONAL, a proposal is prepared and a
\* transaction sent only if the wallet owns a PERSONAL space listed among the
\* target's members or editors; without one publishOps does not return, prepares
\* no edit and sends no transaction.
C6_ProposalNeedsStanding ==
  (apiSpace.found /\ apiSpace.type # "PERSONAL") =>
    /\ ~HasCall("personalSpace.publishEdit")
    /\ (HasCall("daoSpace.proposeEdit") \/ HasCall("sendTransaction")) => HasStanding
    /\ ~HasStanding =>
         /\ ppc # "returned" /\ presult = Null
         /\ \A i \in 1 .. Len(calls) :
              calls[i].call \notin EditCalls /\ calls[i].call # "sendTransaction"
         /\ ppc # "send"

C6_Witness ==
  /\ apiSpace.found /\ apiSpace.type = "DAO" /\ apiSpace.membersList = << >>
  /\ ppc = "returned"
  /\ HasCall("daoSpace.proposeEdit") /\ HasCall("sendTransaction")

\* C7: a publishOps call that has returned a hash prepared exactly one edit,
\* publishEdit for a PERSONAL target and proposeEdit for any other type, and sent
\* exactly one transaction, with the to address and calldata of that edit.
C7_OneEditOneTransaction ==
  ppc = "returned" =>
    LET edits == SelectSeq(calls, LAMBDA c : c.call \in EditCalls)
        sends == SelectSeq(calls, LAMBDA c : c.call = "sendTransaction")
    IN  /\ presult # Null
        /\ Len(edits) = 1
        /\ edits[1].call = IF apiSpace.type = "PERSONAL"
                           THEN "personalSpace.publishEdit" ELSE "daoSpace.proposeEdit"
        /\ Len(sends) = 1
        /\ sends[1].to = "to of " \o edits[1].call
        /\ sends[1].data = "calldata of " \o edits[1].call

C7_Witness ==
  /\ ppc = "returned" /\ presult # Null
  /\ apiSpace.type = "OTHER"
  /\ HasCall("daoSpace.proposeEdit")

\* C8: every external call is attempted at most once; once one of them has failed
\* publishOps has thrown that call's error, the failed call is the last external
\* call made, and no hash is returned.
C8_NoRetry ==
  /\ \A name \in { "getSmartAccountWalletClient", "gql spaces", "gql space",
                   "sendTransaction" } : Count(name) <= 1
  /\ Count("personalSpace.publishEdit") + Count("daoSpace.proposeEdit") <= 1
  /\ failedCall # Null =>
       /\ ppc = "thrown" /\ presult = Null
       /\ calls[Len(calls)].call = failedCall
       /\ perror \in (CASE failedCall = "getSmartAccountWalletClient" -> { "wallet client failed" }
                        [] failedCall \in { "gql spaces", "gql space" } ->
                             { "fetch failed", "API error", "GraphQL" }
                        [] failedCall \in EditCalls -> { "edit failed" }
                        [] OTHER -> { "transaction failed" })
  /\ ppc = "returned" => failedCall = Null /\ perror = Null

C8_Witness ==
  /\ failedCall = "sendTransaction" /\ ppc = "thrown"
  /\ Len(calls) = 5

\* the cleanup batches built so far: del_ops once both loops have run, and the
\* batch handed to publishOps
CleanupBatches ==
  (IF cpc \in { "print", "publish" } THEN { del_ops } ELSE {})
  \cup { cleanupCalls[i].ops : i \in 1 .. Len(cleanupCalls) }

CountOps(batch, type, id) ==
  Len(SelectSeq(batch, LAMBDA op : op.type = type /\ op.id = id))

\* C9: the cleanup batch holds exactly one deleteRelation operation for each
\* distinct id of a createRelation operation of the batch record (sub-relations
\* of a relation included) and none for any other id.
C9_OneDeletePerRelation ==
  \A batch \in CleanupBatches :
    /\ \A i \in 1 .. Len(recordFile.ops) :
         recordFile.ops[i].type = "createRelation" =>
           CountOps(batch, "deleteRelation", recordFile.ops[i].id) = 1
    /\ \A j \in 1 .. Len(batch) :
         batch[j].type = "deleteRelation" =>
           \E i \in 1 .. Len(recordFile.ops) :
             recordFile.ops[i].type = "createRelation" /\ recordFile.ops[i].id = batch[j].id

C9_Witness ==
  /\ Len(cleanupCalls) = 1
  /\ Len(recordFile.ops) = 3
  /\ \A i \in 1 .. 3 : recordFile.ops[i].type = "createRelation"
  /\ recordFile.ops[1].id = recordFile.ops[3].id
  /\ recordFile.ops[2].from = recordFile.ops[1].id
  /\ Len(cleanupCalls[1].ops) = 2

UnsetReplayed == runset # NoUnset /\ rpos > Len(rbatch)

\* C11: after a batch and then the operations of updateEntity(id, unset: [P]) are
\* replayed, entity id has no value of property P, however many the batch had set;
\* all other values, and the relations, are as they were before the unset.
C11_UnsetRemovesEveryValue ==
  UnsetReplayed =>
    /\ \A i \in 1 .. Len(rvalues) :
         ~(rvalues[i].entity = runset.id /\ rvalues[i].property = runset.property)
    /\ rvalues = SelectSeq(rbefore.values,
                           LAMBDA v : v.entity # runset.id \/ v.property # runset.property)
    /\ rrels = rbefore.rels

C11_Witness ==
  /\ UnsetReplayed
  /\ Len(SelectSeq(rbefore.values,
                   LAMBDA v : v.entity = runset.id /\ v.property = runset.property)) = 3
  /\ \E i \in 1 .. Len(rvalues) : rvalues[i].entity = runset.id
  /\ \E i \in 1 .. Len(rvalues) :
       rvalues[i].entity # runset.id /\ rvalues[i].property = runset.property
  /\ rrels # << >>

\* C17: createEntity with a values list that names a property twice (x then y)
\* returns a createEntity operation holding both values, x before y: the given
\* values appear unchanged, in input order, after the name and description.
C17_DuplicateValuesKept ==
  rcall # NoBuild =>
    LET op == rcall.ops[1]
        own == Len(op.values) - Len(rcall.values)
    IN  /\ op.type = "createEntity" /\ op.id = rcall.id
        /\ own >= 0
        /\ SubSeq(op.values, own + 1, Len(op.values)) = rcall.values
        /\ \A i \in 1 .. own : op.values[i].property \in { PROPERTIES_name, PROPERTIES_description }
        /\ \A k \in 2 .. Len(rcall.ops) : rcall.ops[k].type # "createEntity"

C17_Witness ==
  /\ rcall.values = << Value(PROPERTIES_web_url, "text", "x"), Value(PROPERTIES_web_url, "text", "y") >>
  /\ Len(rcall.ops[1].values) = 3
  /\ rcall.ops[1].values[2].value = "x" /\ rcall.ops[1].values[3].value = "y"

\* C12: the cleanup batch holds only updateEntity-unset and deleteRelation
\* operations; each updateEntity targets an entity of a createEntity operation of
\* the record that has values and unsets only properties recorded for that entity,
\* each deleteRelation targets the id of a recorded createRelation operation; an
\* entity recorded without values gets no updateEntity.
C12_OnlyCompensatingOps ==
  \A batch \in CleanupBatches :
    \A j \in 1 .. Len(batch) :
      /\ batch[j].type \in { "updateEntity", "deleteRelation" }
      /\ batch[j].type = "updateEntity" =>
           /\ batch[j].unset # << >>
           /\ \E i \in 1 .. Len(recordFile.ops) :
                /\ recordFile.ops[i].type = "createEntity"
                /\ recordFile.ops[i].id = batch[j].id
                /\ recordFile.ops[i].values # << >>
           /\ \A u \in 1 .. Len(batch[j].unset) :
                \E i \in 1 .. Len(recordFile.ops) :
                  /\ recordFile.ops[i].type = "createEntity"
                  /\ recordFile.ops[i].id = batch[j].id
                  /\ \E v \in 1 .. Len(recordFile.ops[i].values) :
                       recordFile.ops[i].values[v].property = batch[j].unset[u].property
      /\ batch[j].type = "deleteRelation" =>
           /\ batch[j].unset = << >>
           /\ \E i \in 1 .. Len(recordFile.ops) :
                /\ recordFile.ops[i].type = "createRelation"
                /\ recordFile.ops[i].id = batch[j].id

C12_Witness ==
  /\ Len(cleanupCalls) = 1
  /\ Len(recordFile.ops) = 3
  /\ recordFile.ops[1].type = "createEntity" /\ recordFile.ops[1].values # << >>
  /\ recordFile.ops[2].type = "createEntity" /\ recordFile.ops[2].values = << >>
  /\ recordFile.ops[2].id # recordFile.ops[1].id
  /\ recordFile.ops[3].type = "createRelation"
  /\ Len(cleanupCalls[1].ops) = 2
  /\ cleanupCalls[1].ops[1].type = "updateEntity"
  /\ cleanupCalls[1].ops[2].type = "deleteRelation"

OpsOfType(ops, type) == SelectSeq(ops, LAMBDA op : op.type = type)

NameValue(name) == Value(PROPERTIES_name, "text", name)

\* the topics step has ended and nothing has been built since
TopicsBuilt == pc = "people" /\ idx = 1

\* C14 (as stated): three topic records A, B, C yield exactly 3 entity-creation
\* groups, one per record in input order, and the batch holds 0 relation
\* operations at that point.
C14_ThreeGroupsNoRelations ==
  (TopicsBuilt /\ topics = << "A", "B", "C" >>) =>
    /\ Len(OpsOfType(allOps, "createEntity")) = 3
    /\ \A i \in 1 .. 3 : OpsOfType(allOps, "createEntity")[i].values[1] = NameValue(topics[i])
    /\ Len(OpsOfType(allOps, "createRelation")) = 0

\* C14 (amended): the topic records yield one entity-creation group per record, in
\* input order, each made of the createEntity operation and the Types relation of
\* that entity to the Topic type; the batch holds no other operation at that point.
C14_OneGroupPerTopic ==
  (pc = "topics" \/ TopicsBuilt) =>
    LET built == IF pc = "topics" THEN idx - 1 ELSE Len(topics) IN
      /\ Len(allOps) = 2 * built
      /\ \A i \in 1 .. built :
           /\ allOps[2 * i - 1].type = "createEntity"
           /\ allOps[2 * i - 1].values[1] = NameValue(topics[i])
           /\ allOps[2 * i].type = "createRelation"
           /\ allOps[2 * i].from = allOps[2 * i - 1].id
           /\ allOps[2 * i].relType = PROPERTIES_types
           /\ allOps[2 * i].to = TYPES_topic
      /\ \A i, j \in 1 .. built : i # j => allOps[2 * i - 1].id # allOps[2 * j - 1].id

C14_Witness ==
  /\ TopicsBuilt /\ topics = << "A", "B", "C" >>
  /\ Len(OpsOfType(allOps, "createEntity")) = 3
  /\ Len(OpsOfType(allOps, "createRelation")) = 3

\* a person or project record has just been built
RecordBuilt == pc \in { "people", "projects" } /\ idx > 1

LastRecord == (IF pc = "people" THEN people ELSE projects)[idx - 1]

\* the operations of the last createEntity call: from the last createEntity
\* operation of the batch to its end
LastGroup ==
  LET first == CHOOSE i \in 1 .. Len(allOps) :
                 /\ allOps[i].type = "createEntity"
                 /\ \A k \in i + 1 .. Len(allOps) : allOps[k].type # "createEntity"
  IN  SubSeq(allOps, first, Len(allOps))

\* the listed names for which a topic was created earlier in the batch
CreatedTopics(names) == SelectSeq(names, LAMBDA t : \E i \in 1 .. Len(topics) : topics[i] = t)

\* id is the entity produced for a topic record of this name
IsTopicNamed(id, name) ==
  \E k \in 1 .. Len(allOps) - 1 :
    /\ allOps[k].type = "createEntity" /\ allOps[k].id = id
    /\ allOps[k].values[1] = NameValue(name)
    /\ allOps[k + 1].from = id /\ allOps[k + 1].to = TYPES_topic

\* C15 (as stated): a person or project record whose topics list names n topics
\* created earlier adds exactly n relation operations, one per listed topic,
\* pointing at those topics' entity ids in the order listed.
C15_ExactlyNRelations ==
  (RecordBuilt /\ CreatedTopics(LastRecord.topics) = LastRecord.topics) =>
    LET rels == OpsOfType(LastGroup, "createRelation") IN
      /\ Len(rels) = Len(LastRecord.topics)
      /\ \A i \in 1 .. Len(rels) : IsTopicNamed(rels[i].to, LastRecord.topics[i])

\* C15 (amended): such a record adds exactly n Topics relation operations, one per
\* listed topic that was created earlier, from the record's entity to the entity
\* of that topic, in the order listed; its only other relation operation is the
\* Types relation of the record's entity.
C15_TopicRelationsInOrder ==
  RecordBuilt =>
    LET listed == CreatedTopics(LastRecord.topics)
        rels == OpsOfType(LastGroup, "createRelation")
        topicRels == SelectSeq(rels, LAMBDA op : op.relType = PROPERTIES_topics)
    IN  /\ LastGroup[1].values[1] = NameValue(LastRecord.name)
        /\ Len(topicRels) = Len(listed)
        /\ \A i \in 1 .. Len(topicRels) :
             /\ topicRels[i].from = LastGroup[1].id
             /\ IsTopicNamed(topicRels[i].to, listed[i])
        /\ Len(rels) = Len(listed) + 1
        /\ rels[1].relType = PROPERTIES_types /\ rels[1].from = LastGroup[1].id
        /\ rels[1].to = IF pc = "people" THEN TYPES_person ELSE TYPES_project

C15_Witness ==
  /\ RecordBuilt /\ pc = "people"
  /\ topics = << "A", "B", "C" >> /\ LastRecord.topics = << "A", "C" >>
  /\ Len(OpsOfType(LastGroup, "createRelation")) = 3
  /\ IsTopicNamed(LastGroup[3].to, "A") /\ IsTopicNamed(LastGroup[4].to, "C")

IsViewRelation(op) == op.type = "createRelation" /\ op.relType = PROPERTIES_view

IsDataBlockAttachment(op) ==
  /\ op.type = "createRelation" /\ op.relType = PROPERTIES_blocks
  /\ op.to \in { queryBlockId, collectionBlockId }

\* C16: createRelation with entityRelations yields the primary relation and then
\* each sub-relation, whose source is the id generated for the primary relation;
\* in the batch every View relation of a data block therefore starts at the
\* Blocks relation that attaches the block, not at the parent or at the block.
C16_ViewOnBlocksRelation ==
  \A i \in 1 .. Len(allOps) :
    /\ IsViewRelation(allOps[i]) =>
         /\ i > 1 /\ IsDataBlockAttachment(allOps[i - 1])
         /\ allOps[i].from = allOps[i - 1].id
         /\ allOps[i].from # allOps[i - 1].from /\ allOps[i].from # allOps[i - 1].to
         /\ allOps[i].id # allOps[i - 1].id
         /\ allOps[i].to = IF allOps[i - 1].to = queryBlockId THEN VIEWS_gallery ELSE VIEWS_list
    /\ IsDataBlockAttachment(allOps[i]) =>
         /\ i < Len(allOps) /\ IsViewRelation(allOps[i + 1])
         /\ allOps[i].from = ethereumId

C16_Witness ==
  /\ pc = "print"
  /\ Len(SelectSeq(allOps, IsViewRelation)) = 2
  /\ \E i \in 1 .. Len(allOps) :
       /\ IsViewRelation(allOps[i]) /\ allOps[i].to = VIEWS_list
       /\ allOps[i - 1].to = collectionBlockId /\ allOps[i].from = allOps[i - 1].id

\* the entities of the batch typed as data blocks
DataBlocks ==
  { allOps[i].from : i \in { k \in 1 .. Len(allOps) :
      /\ allOps[k].type = "createRelation" /\ allOps[k].relType = PROPERTIES_types
      /\ allOps[k].to = TYPES_data_block } }

\* the relations of one type that start at an entity, in batch order
RelationsFrom(entity, relType) ==
  SelectSeq(allOps, LAMBDA op : op.type = "createRelation" /\ op.from = entity
                                /\ op.relType = relType)

\* C18: every data block entity of the batch carries exactly one data-source-type
\* relation, and its target is the query or the collection data source marker.
C18_OneDataSourceMarker ==
  \A block \in DataBlocks :
    LET markers == RelationsFrom(block, PROPERTIES_data_source_type) IN
      /\ Len(markers) = 1
      /\ markers[1].to \in { QUERY_DATA_SOURCE, COLLECTION_DATA_SOURCE }

C18_Witness ==
  /\ Cardinality(DataBlocks) = 2
  /\ RelationsFrom(queryBlockId, PROPERTIES_data_source_type)[1].to = QUERY_DATA_SOURCE
  /\ RelationsFrom(collectionBlockId, PROPERTIES_data_source_type)[1].to = COLLECTION_DATA_SOURCE

\* id is the entity produced for a person record of this name
IsPersonNamed(id, name) ==
  \E k \in 1 .. Len(allOps) - 1 :
    /\ allOps[k].type = "createEntity" /\ allOps[k].id = id
    /\ allOps[k].values[1] = NameValue(name)
    /\ allOps[k + 1].from = id /\ allOps[k + 1].to = TYPES_person

MarkedWith(block, marker) ==
  \E i \in 1 .. Len(allOps) :
    /\ allOps[i].type = "createRelation" /\ allOps[i].from = block
    /\ allOps[i].relType = PROPERTIES_data_source_type /\ allOps[i].to = marker

\* C19: a data block marked with the query data source carries a filter value and
\* no collection-item relation; one marked with the collection data source carries
\* collection-item relations, each to a member entity, in the order the members
\* were listed (Vitalik Buterin, then Satoshi Nakamoto).
C19_FilterOrItems ==
  \A block \in DataBlocks :
    /\ MarkedWith(block, QUERY_DATA_SOURCE) =>
         /\ \E i \in 1 .. Len(allOps) :
              /\ allOps[i].type = "createEntity" /\ allOps[i].id = block
              /\ \E v \in 1 .. Len(allOps[i].values) :
                   /\ allOps[i].values[v].property = PROPERTIES_filter
                   /\ allOps[i].values[v].value = "queryFilter"
         /\ RelationsFrom(block, PROPERTIES_collection_item) = << >>
    /\ MarkedWith(block, COLLECTION_DATA_SOURCE) =>
         LET items == RelationsFrom(block, PROPERTIES_collection_item) IN
           /\ Len(items) = 2
           /\ IsPersonNamed(items[1].to, "Vitalik Buterin")
           /\ IsPersonNamed(items[2].to, "Satoshi Nakamoto")

C19_Witness ==
  /\ MarkedWith(queryBlockId, QUERY_DATA_SOURCE)
  /\ MarkedWith(collectionBlockId, COLLECTION_DATA_SOURCE)
  /\ Len(RelationsFrom(collectionBlockId, PROPERTIES_collection_item)) = 2
  /\ Len(people) = 2 /\ people[1].name = "Satoshi Nakamoto"

\* C20: an identifier held as a 16-byte array or as a dashed UUID string is
\* rendered in the file as exactly 32 lowercase hexadecimal characters without
\* separators.
C20_Rendered32LowerHex ==
  (uout # NoUuid /\ (isUuidByteArray(uin) \/ MatchesDashedUuid(uin.chars))) =>
    /\ uout.form = "string"
    /\ Len(uout.chars) = 2 * UuidBytes
    /\ \A i \in 1 .. Len(uout.chars) : uout.chars[i] \in LowerHex

IsPrefix(s, t) == Len(s) <= Len(t) /\ SubSeq(t, 1, Len(s)) = s

\* the parents for which a last ordering key is kept; an entry made under the
\* undefined id of a missing Ethereum project is not a parent
KeyedParents == DOMAIN lastPosByEntity \ { NoId }

\* the key kept for every parent is the key of the last Blocks relation of that
\* parent in the batch, and every parent of a Blocks relation has a key kept
KeyIsLast ==
  /\ \A parent \in KeyedParents :
       LET blocks == RelationsFrom(parent, PROPERTIES_blocks) IN
         /\ blocks # << >>
         /\ blocks[Len(blocks)].position = lastPosByEntity[parent]
  /\ \A i \in 1 .. Len(allOps) :
       (allOps[i].type = "createRelation" /\ allOps[i].relType = PROPERTIES_blocks) =>
         allOps[i].from \in KeyedParents

\* C21: every step of batch construction only appends to the batch, so that no
\* operation already in it (and no ordering key of a relation in it) is changed
\* or removed by a later step, and after every step the key kept as the last
\* key of a parent is the key of the most recently appended Blocks relation of
\* that parent.
C21_AppendOnlyKeyOfLatest == [][IsPrefix(allOps, allOps') /\ KeyIsLast']_vars

C21_Witness ==
  /\ pc = "print" /\ ethereumId # NoId
  /\ Len(RelationsFrom(ethereumId, PROPERTIES_blocks)) = 3
  /\ RelationsFrom(ethereumId, PROPERTIES_blocks)[3].to = collectionBlockId
  /\ lastPosByEntity[ethereumId] = RelationsFrom(ethereumId, PROPERTIES_blocks)[3].position
  /\ Cardinality(KeyedParents) = 2

NotSet(v) == v = Null \/ v = ""

\* C22: when DEMO_SPACE_ID or PK_SW is not set, publishOps fails with the error
\* naming the variable, and it has created no wallet client, sent no API query,
\* prepared no edit and sent no transaction.
C22_UnsetEnvNoCall ==
  (NotSet(penv.DEMO_SPACE_ID) \/ NotSet(penv.PK_SW)) =>
    /\ calls = << >> /\ gqlLog = << >>
    /\ author = Null /\ pto = Null /\ pcalldata = Null /\ presult = Null
    /\ ppc \in { "env", "thrown" }
    /\ ppc = "thrown" =>
         perror = (IF NotSet(penv.DEMO_SPACE_ID) THEN "DEMO_SPACE_ID not set in .env"
                   ELSE "PK_SW not set in .env")

C22_Witness ==
  /\ ppc = "thrown" /\ perror = "PK_SW not set in .env"
  /\ penv.DEMO_SPACE_ID = "space" /\ penv.PK_SW = "" /\ calls = << >>

\* the variable that receives the data of a gql query still holds nothing
NoDataKept(query) == IF query = "gql spaces" THEN personalSpaceData = << >>
                 ELSE spaceData = NoSpace

\* C23: gql returns data exactly when the HTTP status is ok and the body carries
\* no errors; a call that got a non-ok status or GraphQL errors returned nothing:
\* publishOps has then failed at that call, kept no data of it and made no later
\* call.
C23_DataOnlyFromGoodResponse ==
  \A i \in 1 .. Len(gqlLog) :
    LET g == gqlLog[i] IN
      /\ g.returned <=> (g.response.net /\ g.response.ok /\ ~g.response.errors)
      /\ ~g.returned =>
           /\ i = Len(gqlLog)
           /\ ppc = "thrown" /\ failedCall = g.query
           /\ calls[Len(calls)].call = g.query
           /\ NoDataKept(g.query)
           /\ pto = Null /\ pcalldata = Null /\ presult = Null

C23_Witness ==
  /\ Len(gqlLog) = 2 /\ gqlLog[1].returned
  /\ gqlLog[2].response = [net |-> TRUE, ok |-> TRUE, errors |-> TRUE]
  /\ ppc = "thrown" /\ perror = "GraphQL" /\ apiSpace.found /\ spaceData = NoSpace

RegistryFields == << "web_url", "birth_date", "date_founded" >>

RegistryProperty(field) ==
  CASE field = "web_url" -> PROPERTIES_web_url
    [] field = "birth_date" -> PROPERTIES_birth_date
    [] field = "date_founded" -> PROPERTIES_date_founded

RegistryKind(field) == IF field = "web_url" THEN "text" ELSE "date"

\* the values of the last built record's entity that follow its name and
\* description: what extractValues returned for the record
ExtractedValues == SubSeq(LastGroup[1].values, 3, Len(LastGroup[1].values))

\* C24: for a record, extractValues returns exactly one value per registry field
\* (web_url, birth_date, date_founded) that the record holds non-null, in registry
\* order, each with the registry's property id and kind and the record's value
\* unchanged; a null or absent field and every other field (name, description,
\* topics, avatar_url, blocks) contributes nothing.
C24_OneValuePerPresentField ==
  RecordBuilt =>
    LET present == SelectSeq(RegistryFields, LAMBDA f : LastRecord[f] # Null) IN
      /\ Len(ExtractedValues) = Len(present)
      /\ \A i \in 1 .. Len(present) :
           ExtractedValues[i] = [property |-> RegistryProperty(present[i]),
                                 kind |-> RegistryKind(present[i]),
                                 value |-> LastRecord[present[i]]]

C24_Witness ==
  /\ RecordBuilt /\ pc = "people"
  /\ LastRecord.web_url = "https://x" /\ LastRecord.date_founded = "2015-07-30"
  /\ Len(ExtractedValues) = 3
  /\ ExtractedValues[2] = Value(PROPERTIES_birth_date, "date", "1994-01-31")

\* every Topics relation of the batch points at an entity created earlier in the
\* batch with the Topic type
TopicRelationsPointAtTopics ==
  \A i \in 1 .. Len(allOps) :
    (allOps[i].type = "createRelation" /\ allOps[i].relType = PROPERTIES_topics) =>
      \E k \in 1 .. i - 2 :
        /\ allOps[k].type = "createEntity" /\ allOps[k].id = allOps[i].to
        /\ allOps[k + 1].type = "createRelation" /\ allOps[k + 1].from = allOps[i].to
        /\ allOps[k + 1].relType = PROPERTIES_types /\ allOps[k + 1].to = TYPES_topic

\* the record the next step builds
NextRecord == (IF pc = "people" THEN people ELSE projects)[idx]

\* the next step builds a record none of whose listed topics matches a topic record
BuildsUnmatched ==
  /\ pc \in { "people", "projects" }
  /\ idx <= Len(IF pc = "people" THEN people ELSE projects)
  /\ CreatedTopics(NextRecord.topics) = << >>

\* C25: every Topics relation in the batch points at the id of a topic entity
\* created earlier in the batch; a listed topic name that matches no topic record
\* produces no relation, and the step that builds a record whose topics all fail
\* to match creates the record's entity without any Topics relation.
C25_TopicRelationsOnlyToTopics ==
  [][/\ TopicRelationsPointAtTopics'
     /\ BuildsUnmatched =>
          /\ pc' = pc /\ idx' = idx + 1
          /\ LastGroup'[1].values[1] = NameValue(NextRecord.name)
          /\ \A i \in 1 .. Len(LastGroup') : LastGroup'[i].relType # PROPERTIES_topics]_vars

\* an entity with this id is created by an operation before position i of the batch
CreatedBefore(id, i) ==
  \E k \in 1 .. i - 1 : allOps[k].type = "createEntity" /\ allOps[k].id = id

\* C26: for every Blocks relation in the batch, its source (the parent) and its
\* target (the block) are ids of entities created by operations earlier in the
\* batch, also when no project is named "Ethereum".
C26_BlocksBetweenCreatedEntities ==
  \A i \in 1 .. Len(allOps) :
    (allOps[i].type = "createRelation" /\ allOps[i].relType = PROPERTIES_blocks) =>
      /\ CreatedBefore(allOps[i].from, i)
      /\ CreatedBefore(allOps[i].to, i)

C26_Witness ==
  /\ pc = "failed" /\ ethereumId = NoId /\ queryBlockId # NoId
  /\ CreatedBefore(queryBlockId, Len(allOps) + 1)
  /\ RelationsFrom(Lookup(projectIdsByName, "Other"), PROPERTIES_blocks) # << >>

\* C27: the batch record is written before publishOps is called: whenever the
\* call has been made the record on disk holds the batch handed to it, and it
\* still does when the call has failed, so that a record on disk does not tell
\* that its operations were published.
C27_RecordBeforePublish ==
  publishCalls # << >> =>
    /\ batchFile # NoFile
    /\ batchFile = publishCalls[1].ops
    /\ pc = "failed" => txHash = Null

C27_Witness ==
  /\ pc = "failed" /\ Len(publishCalls) = 1 /\ txHash = Null
  /\ batchFile = allOps /\ Len(batchFile) > 10

\* batch construction has run to its end: the collection block, the last thing
\* built, is attached
ConstructionComplete ==
  /\ collectionBlockId # NoId
  /\ \E i \in 1 .. Len(allOps) :
       /\ allOps[i].type = "createRelation" /\ allOps[i].relType = PROPERTIES_blocks
       /\ allOps[i].to = collectionBlockId

\* C28: a run whose batch construction has not run to its end, because a step of
\* it failed (reading the input, building an entity or a relation, the avatar
\* upload), has written no batch record and has not called publishOps: what is
\* written or published is the complete batch.
C28_NothingFromFailedConstruction ==
  /\ ~ConstructionComplete => batchFile = NoFile /\ publishCalls = << >>
  /\ batchFile # NoFile => batchFile = allOps
  /\ \A i \in 1 .. Len(publishCalls) : publishCalls[i].ops = allOps

C28_Witness ==
  /\ pc = "failed" /\ ~ConstructionComplete
  /\ \E i \in 1 .. Len(allOps) : allOps[i].relType = AVATAR_PROPERTY
  /\ Len(projects) = 2 /\ projects[2].avatar_url # Null /\ idx = 2
  /\ batchFile = NoFile /\ publishCalls = << >>

\* C29: when the batch record is missing or is not valid JSON, the cleanup script
\* builds no operation, calls publishOps never and writes no delete-operations
\* file; it ends with an error.
C29_NoRecordNothingDone ==
  recordFile.status # "ok" =>
    /\ cleanupCalls = << >> /\ deleteFile = NoFile /\ del_ops = << >>
    /\ cpc \in { "read", "entities", "failed" }

C29_Witness ==
  /\ recordFile.status = "invalid" /\ cpc = "failed"
  /\ cleanupCalls = << >> /\ deleteFile = NoFile

\* the cleanup script has ended
CleanEnded == cpc \in { "done", "failed" }

\* C30: when the batch record is readable, publishOps is called at most once and
\* with the cleanup batch; a run that ends has made the call, also when the batch
\* is empty, unless writing the delete-operations file failed; that file is
\* written only when the batch is non-empty and then holds the batch.
C30_OnePublishAlsoWhenEmpty ==
  recordFile.status = "ok" =>
    /\ Len(cleanupCalls) <= 1
    /\ \A i \in 1 .. Len(cleanupCalls) : cleanupCalls[i].ops = del_ops
    /\ (CleanEnded /\ (del_ops = << >> \/ deleteFile # NoFile)) => Len(cleanupCalls) = 1
    /\ deleteFile # NoFile => del_ops # << >> /\ deleteFile = del_ops
    /\ (cleanupCalls # << >> /\ del_ops # << >>) => deleteFile = del_ops

C30_Witness ==
  /\ recordFile.status = "ok" /\ Len(recordFile.ops) = 2
  /\ cpc = "done" /\ Len(cleanupCalls) = 1
  /\ cleanupCalls[1].ops = << >> /\ deleteFile = NoFile
====
